---- MODULE Spec2Model ----
(***************************************************************************)
(* TrioTrack city dashboard: the in-memory entity store (MemStorage), its  *)
(* derived views, the JSON snapshot adapter (FileStorage), the spreadsheet *)
(* store (GoogleSheetsStorage), the server start-up store switch and the   *)
(* PM2.5 -> AQI conversion.                                                *)
(*                                                                         *)
(* Conventions.  A JavaScript Date is <<"Date", ms>>; the ISO string       *)
(* JSON.stringify makes of it is <<"string", ms>> (toISOString keeps the   *)
(* milliseconds, so the instant survives, the type does not).  An object   *)
(* property that is undefined or missing reads as Undefined.  A JS Map is  *)
(* the sequence of its entries in insertion order.                         *)
(***************************************************************************)
EXTENDS Integers, Sequences, FiniteSets, TLC

VARIABLES users, airQualityData, trafficData, reports, locations, predictions,
          userId, airQualityId, trafficId, reportId, predictionId,
          now, ret, disk, sheet, gs, phase

memVars == <<users, airQualityData, trafficData, reports, locations, predictions,
             userId, airQualityId, trafficId, reportId, predictionId>>
envVars == <<disk, sheet, gs, phase>>
vars == <<users, airQualityData, trafficData, reports, locations, predictions,
          userId, airQualityId, trafficId, reportId, predictionId,
          now, ret, disk, sheet, gs, phase>>

----------------------------------------------------------------------------
(* Bounds of the model *)

\* last clock reading (ms) the model explores
MaxTime == 2
\* entities created on top of the constructor's sample data
MaxNew == 2

----------------------------------------------------------------------------
(* Generic helpers *)

Undefined == "undefined"
Absent == [absent |-> TRUE]

Range(s) == {s[i] : i \in 1..Len(s)}

Max(S) == CHOOSE x \in S : \A y \in S : y <= x

\* new Date(): the clock never runs backwards; one or more calls may fall
\* into the same millisecond
ClockReads == {t \in {now, now + 1} : t <= MaxTime}

Date(t) == <<"Date", t>>
\* new Date(x).getTime(), for x a Date or an ISO string
getTime(d) == d[2]

\* Array.prototype.sort with a comparator: stable (ES2019), so elements that
\* compare equal keep their relative order.  before[i][j] is "cmp(s[i], s[j])
\* < 0".  The element at index i lands behind the elements that sort before
\* it and behind the earlier elements that compare equal to it
SortStable(s, before) ==
  LET n == Len(s)
      rank(i) == 1 + Cardinality({j \in 1..n :
                       \/ before[j][i]
                       \/ (~before[i][j] /\ j < i)})
  IN  [k \in 1..n |-> s[CHOOSE i \in 1..n : rank(i) = k]]

\* Array.prototype.slice(start, end) with 0-based, end-exclusive indices
Slice(s, start, end) ==
  LET lo == IF start > Len(s) THEN Len(s) ELSE start
      hi == IF end > Len(s) THEN Len(s) ELSE end
  IN  IF hi <= lo THEN <<>> ELSE SubSeq(s, lo + 1, hi)

\* Map.get on a Map held as a sequence of <<key, value>> entries
MapHas(m, k) == \E i \in 1..Len(m) : m[i][1] = k
MapGet(m, k) == m[CHOOSE i \in 1..Len(m) : m[i][1] = k][2]
\* Map.set: an existing key keeps its place and takes the new value, a new
\* key goes to the end
MapSet(m, k, v) ==
  IF MapHas(m, k)
  THEN [i \in 1..Len(m) |-> IF m[i][1] = k THEN <<k, v>> ELSE m[i]]
  ELSE Append(m, <<k, v>>)
\* Array.from(map.values())
MapValues(m) == [i \in 1..Len(m) |-> m[i][2]]

\* allData.push(...dataArray) over the map's values, in insertion order
RECURSIVE Flatten(_)
Flatten(m) == IF m = <<>> THEN <<>> ELSE Head(m)[2] \o Flatten(Tail(m))

----------------------------------------------------------------------------
(* MemStorage: the operations as functions of the fields they read *)

\* createReport with the spread written last: the input's own id, status,
\* createdAt and updatedAt would win
newReportInputWins(input, id, t) ==
  input @@
  [ id |-> id, status |-> "pending", createdAt |-> Date(t), updatedAt |-> Date(t) ]

\* createReport: the object literal spreads the input first and sets id,
\* status, createdAt and updatedAt after it, so for those four the input's
\* own properties lose (f @@ g takes f's value where both have one)
newReport(input, id, t) ==
  [ id |-> id, status |-> "pending", createdAt |-> Date(t), updatedAt |-> Date(t) ]
    @@ input

\* reports.findIndex(report => report.id === id); 0 stands for -1
findIndexById(rs, id) ==
  IF \E i \in 1..Len(rs) : rs[i].id = id
  THEN CHOOSE i \in 1..Len(rs) : rs[i].id = id /\ \A j \in 1..(i - 1) : rs[j].id # id
  ELSE 0

\* updateReport that stamps createdAt as well
updatedReportRestamped(r, status, t) ==
  [r EXCEPT !.status = status, !.updatedAt = Date(t), !.createdAt = Date(t)]

\* updateReport: the report at the found index with status and updatedAt
\* replaced
updatedReport(r, status, t) == [r EXCEPT !.status = status, !.updatedAt = Date(t)]

newLocation(input) == input

newUser(input, id, t) ==
  [ id |-> id, username |-> input.username, password |-> input.password,
    role |-> input.role, createdAt |-> Date(t) ]

newAirQuality(input, id, t) ==
  [ id |-> id, locationId |-> input.locationId, aqi |-> input.aqi,
    pm25 |-> input.pm25, timestamp |-> Date(t) ]

newTraffic(input, id, t) ==
  [ id |-> id, locationId |-> input.locationId,
    congestionLevel |-> input.congestionLevel, isHotspot |-> input.isHotspot,
    timestamp |-> Date(t) ]

newPrediction(input, id, t) ==
  [ id |-> id, locationId |-> input.locationId, type |-> input.type,
    currentValue |-> input.currentValue, createdAt |-> Date(t) ]

\* `${locationId}-${type}`; over the types "air" and "traffic" no two
\* (locationId, type) pairs give the same key
predictionKey(locationId, type) == <<locationId, "-", type>>

\* the per-key list replaced by a list of the new element alone
putUnder(m, k, x) == MapSet(m, k, <<x>>)

\* the per-key list with one more element pushed
pushUnder(m, k, x) == MapSet(m, k, (IF MapHas(m, k) THEN MapGet(m, k) ELSE <<>>) \o <<x>>)

----------------------------------------------------------------------------
(* The sample data of MemStorage.initializeData *)

locationSamples ==
  << [id |-> "downtown", name |-> "Downtown"],
     [id |-> "north",    name |-> "North District"],
     [id |-> "west",     name |-> "West Harbor"],
     [id |-> "east",     name |-> "East Side"],
     [id |-> "south",    name |-> "South Valley"] >>

airQualitySamples ==
  << [locationId |-> "downtown", aqi |-> 132, pm25 |-> 45],
     [locationId |-> "north",    aqi |-> 156, pm25 |-> 58],
     [locationId |-> "west",     aqi |-> 88,  pm25 |-> 29],
     [locationId |-> "east",     aqi |-> 110, pm25 |-> 38],
     [locationId |-> "south",    aqi |-> 65,  pm25 |-> 20] >>

trafficSamples ==
  << [locationId |-> "downtown", congestionLevel |-> 68, isHotspot |-> FALSE],
     [locationId |-> "north",    congestionLevel |-> 42, isHotspot |-> FALSE],
     [locationId |-> "west",     congestionLevel |-> 92, isHotspot |-> TRUE],
     [locationId |-> "east",     congestionLevel |-> 76, isHotspot |-> TRUE],
     [locationId |-> "south",    congestionLevel |-> 58, isHotspot |-> FALSE] >>

predictionSamples ==
  << [locationId |-> "downtown", type |-> "air",     currentValue |-> 132],
     [locationId |-> "downtown", type |-> "traffic", currentValue |-> 68] >>

reportSamples ==
  << [issueType |-> "airPollution", location |-> "North Industrial Zone, Block 4, Building 7",
      description |-> "smoke", userId |-> Undefined, photoUrl |-> Undefined],
     [issueType |-> "trafficCongestion", location |-> "West Highway, Mile 23, Exit 12",
      description |-> "accident", userId |-> Undefined, photoUrl |-> Undefined],
     [issueType |-> "flooding", location |-> "Downtown, Oak Street & 7th Avenue",
      description |-> "flood", userId |-> Undefined, photoUrl |-> Undefined] >>

\* a store: the eleven fields of a MemStorage instance
EmptyStore ==
  [ users |-> <<>>, airQualityData |-> <<>>, trafficData |-> <<>>, reports |-> <<>>,
    locations |-> <<>>, predictions |-> <<>>,
    userId |-> 1, airQualityId |-> 1, trafficId |-> 1, reportId |-> 1, predictionId |-> 1 ]

\* the operations on a store value (this), each returning the store after it
stCreateUser(s, input, t) ==
  [s EXCEPT !.users = MapSet(@, s.userId, newUser(input, s.userId, t)),
            !.userId = @ + 1]

stAddAirQualityData(s, input, t) ==
  [s EXCEPT !.airQualityData =
              pushUnder(@, input.locationId, newAirQuality(input, s.airQualityId, t)),
            !.airQualityId = @ + 1]

stAddTrafficData(s, input, t) ==
  [s EXCEPT !.trafficData =
              pushUnder(@, input.locationId, newTraffic(input, s.trafficId, t)),
            !.trafficId = @ + 1]

stCreateReport(s, input, t) ==
  [s EXCEPT !.reports = Append(@, newReport(input, s.reportId, t)),
            !.reportId = @ + 1]

stUpdateReport(s, id, status, t) ==
  LET i == findIndexById(s.reports, id)
  IN  IF i = 0 THEN s
      ELSE [s EXCEPT !.reports[i] = updatedReport(s.reports[i], status, t)]

stAddLocation(s, input) ==
  [s EXCEPT !.locations = MapSet(@, input.id, newLocation(input))]

stAddPrediction(s, input, t) ==
  [s EXCEPT !.predictions =
              pushUnder(@, predictionKey(input.locationId, input.type),
                        newPrediction(input, s.predictionId, t)),
            !.predictionId = @ + 1]

\* one call of the add/create operation that initializeData uses for a
\* sample list
stAdd(s, kind, x, t) ==
  CASE kind = "location"   -> stAddLocation(s, x)
    [] kind = "airQuality" -> stAddAirQualityData(s, x, t)
    [] kind = "traffic"    -> stAddTrafficData(s, x, t)
    [] kind = "prediction" -> stAddPrediction(s, x, t)
    [] kind = "report"     -> stCreateReport(s, x, t)

\* samples.forEach(sample => this.addX(sample))
RECURSIVE ForEach(_, _, _, _)
ForEach(s, kind, samples, t) ==
  IF samples = <<>> THEN s
  ELSE ForEach(stAdd(s, kind, Head(samples), t), kind, Tail(samples), t)

\* initializeData up to the sample reports
StoreBeforeReports(t) ==
  LET s1 == ForEach(EmptyStore, "location", locationSamples, t)
      s2 == ForEach(s1, "airQuality", airQualitySamples, t)
      s3 == ForEach(s2, "traffic", trafficSamples, t)
  IN  ForEach(s3, "prediction", predictionSamples, t)

\* new MemStorage() at clock reading t: empty maps, counters at 1, then
\* initializeData
ConstructedStore(t) == ForEach(StoreBeforeReports(t), "report", reportSamples, t)

\* createReport called for each input in turn, the i-th call reading the
\* clock at times[i]
RECURSIVE createReportsAt(_, _, _)
createReportsAt(s, inputs, times) ==
  IF inputs = <<>> THEN s
  ELSE createReportsAt(stCreateReport(s, Head(inputs), Head(times)),
                       Tail(inputs), Tail(times))

\* the store the variables hold
Store ==
  [ users |-> users, airQualityData |-> airQualityData, trafficData |-> trafficData,
    reports |-> reports, locations |-> locations, predictions |-> predictions,
    userId |-> userId, airQualityId |-> airQualityId, trafficId |-> trafficId,
    reportId |-> reportId, predictionId |-> predictionId ]

SetStore(s) ==
  /\ users' = s.users
  /\ airQualityData' = s.airQualityData
  /\ trafficData' = s.trafficData
  /\ reports' = s.reports
  /\ locations' = s.locations
  /\ predictions' = s.predictions
  /\ userId' = s.userId
  /\ airQualityId' = s.airQualityId
  /\ trafficId' = s.trafficId
  /\ reportId' = s.reportId
  /\ predictionId' = s.predictionId

InitStore(s) ==
  /\ users = s.users
  /\ airQualityData = s.airQualityData
  /\ trafficData = s.trafficData
  /\ reports = s.reports
  /\ locations = s.locations
  /\ predictions = s.predictions
  /\ userId = s.userId
  /\ airQualityId = s.airQualityId
  /\ trafficId = s.trafficId
  /\ reportId = s.reportId
  /\ predictionId = s.predictionId

----------------------------------------------------------------------------
(* Inputs *)

Statuses == {"resolved", "urgent"}

\* request bodies for createReport; the second carries properties of its own
\* for the four fields createReport sets
ReportInputs ==
  { [issueType |-> "flooding", location |-> "Downtown, Oak Street",
     description |-> "water", photoUrl |-> Undefined, userId |-> Undefined],
    [issueType |-> "noisePollution", location |-> "North, Block 4",
     description |-> "noise", photoUrl |-> "p.png", userId |-> 1,
     id |-> 77, status |-> "resolved", createdAt |-> Date(0), updatedAt |-> Date(1)] }

\* ids for updateReport: the newest report and an id no report has
UpdateIds == {reportId - 1, reportId}

UserInputs ==
  { [username |-> "asha", password |-> "pw1", role |-> "user"],
    [username |-> "asha", password |-> "pw2", role |-> "admin"] }

\* "harbor" is no location of the sample data
AirQualityInputs ==
  { [locationId |-> l, aqi |-> a, pm25 |-> 35] : l \in {"downtown", "harbor"}, a \in {40, 180} }

TrafficInputs ==
  { [locationId |-> l, congestionLevel |-> c, isHotspot |-> h] :
      l \in {"downtown", "harbor"}, c \in {95, 68}, h \in BOOLEAN }

LocationInputs ==
  { [id |-> i, name |-> n] : i \in {"downtown", "harbor"}, n \in {"Harbor", "Old Town"} }

PredictionTypes == {"air", "traffic"}
PredictionLocations == {"downtown", "north"}
PredictionInputs ==
  { [locationId |-> l, type |-> ty, currentValue |-> 100] :
      l \in PredictionLocations, ty \in PredictionTypes }

----------------------------------------------------------------------------
(* MemStorage operations as actions *)

\* MemStorage.createUser
CreateUser(input, t) ==
  /\ Len(users) < MaxNew
  /\ t \in ClockReads
  /\ SetStore(stCreateUser(Store, input, t))
  /\ now' = t
  /\ ret' = [op |-> "createUser", value |-> newUser(input, userId, t)]
  /\ UNCHANGED envVars

\* MemStorage.addAirQualityData
AddAirQualityData(input, t) ==
  /\ Len(Flatten(airQualityData)) < Len(airQualitySamples) + MaxNew
  /\ t \in ClockReads
  /\ SetStore(stAddAirQualityData(Store, input, t))
  /\ now' = t
  /\ ret' = [op |-> "addAirQualityData", value |-> newAirQuality(input, airQualityId, t)]
  /\ UNCHANGED envVars

\* MemStorage.addTrafficData
AddTrafficData(input, t) ==
  /\ Len(Flatten(trafficData)) < Len(trafficSamples) + MaxNew
  /\ t \in ClockReads
  /\ SetStore(stAddTrafficData(Store, input, t))
  /\ now' = t
  /\ ret' = [op |-> "addTrafficData", value |-> newTraffic(input, trafficId, t)]
  /\ UNCHANGED envVars

\* MemStorage.addLocation
AddLocation(input) ==
  /\ SetStore(stAddLocation(Store, input))
  /\ ret' = [op |-> "addLocation", value |-> newLocation(input)]
  /\ UNCHANGED <<now, envVars>>

\* MemStorage.getLocations
GetLocations ==
  /\ ret' = [op |-> "getLocations", value |-> MapValues(locations)]
  /\ UNCHANGED <<memVars, now, envVars>>

\* MemStorage.addPrediction
AddPrediction(input, t) ==
  /\ Len(Flatten(predictions)) < Len(predictionSamples) + MaxNew
  /\ t \in ClockReads
  /\ SetStore(stAddPrediction(Store, input, t))
  /\ now' = t
  /\ ret' = [op |-> "addPrediction", value |-> newPrediction(input, predictionId, t)]
  /\ UNCHANGED envVars

\* the comparator turned round: oldest createdAt first
OlderCreated(a, b) == getTime(a.createdAt) < getTime(b.createdAt)

\* the comparator of getPrediction's sort: newest createdAt first
NewerCreated(a, b) == getTime(a.createdAt) > getTime(b.createdAt)

\* predictions.sort(...) in getPrediction
sortPredictions(ps) ==
  SortStable(ps, [i \in 1..Len(ps) |-> [j \in 1..Len(ps) |-> NewerCreated(ps[i], ps[j])]])

\* MemStorage.getPrediction: sort() sorts the stored array itself, so the
\* call reorders the list kept under the key
GetPrediction(locationId, type) ==
  LET key == predictionKey(locationId, type)
      ps  == IF MapHas(predictions, key) THEN MapGet(predictions, key) ELSE <<>>
      sorted == sortPredictions(ps)
  IN  /\ predictions' = IF ps = <<>> THEN predictions ELSE MapSet(predictions, key, sorted)
      /\ ret' = [op |-> "getPrediction", locationId |-> locationId, type |-> type,
                 stored |-> [i \in 1..Len(ps) |-> ps[i].id],
                 value |-> IF ps = <<>> THEN Absent ELSE sorted[1]]
      /\ UNCHANGED <<users, airQualityData, trafficData, reports, locations,
                     userId, airQualityId, trafficId, reportId, predictionId,
                     now, envVars>>

\* MemStorage.createReport
CreateReport(input, t) ==
  /\ Len(reports) < Len(reportSamples) + MaxNew
  /\ t \in ClockReads
  /\ SetStore(stCreateReport(Store, input, t))
  /\ now' = t
  /\ ret' = [op |-> "createReport", input |-> input,
             value |-> newReport(input, reportId, t)]
  /\ UNCHANGED envVars

\* MemStorage.updateReport; the clock is read only past the early return
UpdateReport(id, status, t) ==
  /\ t \in ClockReads
  /\ LET i == findIndexById(reports, id)
         s == stUpdateReport(Store, id, status, t)
     IN  /\ SetStore(s)
         /\ now' = IF i = 0 THEN now ELSE t
         /\ ret' = [op |-> "updateReport", id |-> id, status |-> status,
                    value |-> IF i = 0 THEN Absent ELSE s.reports[i]]
  /\ UNCHANGED envVars

----------------------------------------------------------------------------
(* FileStorage: JSON snapshot files *)

\* an ISO string that drops the odd milliseconds
toISOStringCoarse(d) == <<"string", (getTime(d) \div 2) * 2>>

\* Date.prototype.toJSON gives the ISO string of the instant; a value that is
\* already a string is written as it is
toISOString(d) == <<"string", getTime(d)>>

\* JSON.stringify of the entities: Date-valued properties become strings,
\* undefined properties are left out (and read back as undefined)
jsonUser(u)       == [u EXCEPT !.createdAt = toISOString(@)]
jsonSample(d)     == [d EXCEPT !.timestamp = toISOString(@)]
jsonReport(r)     == [r EXCEPT !.createdAt = toISOString(@), !.updatedAt = toISOString(@)]
jsonPrediction(x) == [x EXCEPT !.createdAt = toISOString(@)]

jsonList(xs, kind) ==
  [i \in 1..Len(xs) |->
     CASE kind = "user"       -> jsonUser(xs[i])
       [] kind = "sample"     -> jsonSample(xs[i])
       [] kind = "report"     -> jsonReport(xs[i])
       [] kind = "prediction" -> jsonPrediction(xs[i])
       [] kind = "location"   -> xs[i]]

\* Array.from(map.entries()) of a Map of entities / of a Map of lists
jsonEntries(m, kind) == [i \in 1..Len(m) |-> <<m[i][1], jsonList(<<m[i][2]>>, kind)[1]>>]
jsonListEntries(m, kind) == [i \in 1..Len(m) |-> <<m[i][1], jsonList(m[i][2], kind)>>]

NoFile == [exists |-> FALSE]
\* a file whose text JSON.parse rejects
Corrupt == [exists |-> TRUE, parses |-> FALSE]
File(content) == [exists |-> TRUE, parses |-> TRUE, content |-> content]

FileOrder == <<"users", "airQuality", "traffic", "reports", "locations", "predictions">>

\* what saveToDisk writes into each of DATA_FILES, in the order it writes them
fileImage(s, name) ==
  CASE name = "users" ->
         File([users |-> jsonEntries(s.users, "user"), nextId |-> s.userId])
    [] name = "airQuality" ->
         File([data |-> jsonListEntries(s.airQualityData, "sample"), nextId |-> s.airQualityId])
    [] name = "traffic" ->
         File([data |-> jsonListEntries(s.trafficData, "sample"), nextId |-> s.trafficId])
    [] name = "reports" ->
         File([reports |-> jsonList(s.reports, "report"), nextId |-> s.reportId])
    [] name = "locations" ->
         File([locations |-> jsonEntries(s.locations, "location")])
    [] name = "predictions" ->
         File([predictions |-> jsonListEntries(s.predictions, "prediction"),
               nextId |-> s.predictionId])

\* a save that leaves the reports file as it was
filesAfterSaveButReports(files, s, k, cut) ==
  [name \in DOMAIN files |-> IF name = "reports" THEN files[name] ELSE fileImage(s, name)]

\* a save that writes no file
filesUntouched(files, s, k, cut) == files

\* the files after saveToDisk wrote the first k of them; k = 6 is a save that
\* ran to its end.  The write that threw leaves its file as it was or cut short
filesAfterSave(files, s, k, cut) ==
  [name \in DOMAIN files |->
     LET i == CHOOSE j \in 1..Len(FileOrder) : FileOrder[j] = name
     IN  IF i <= k THEN fileImage(s, name)
         ELSE IF i = k + 1 /\ cut THEN Corrupt
         ELSE files[name]]

\* nextId || 1
orOne(n) == IF n = 0 THEN 1 ELSE n

\* one "if (fs.existsSync(...))" block of loadFromDisk, for a file that parses
loadFile(s, name, c) ==
  CASE name = "users" ->
         [s EXCEPT !.users = c.users, !.userId = orOne(c.nextId)]
    [] name = "airQuality" ->
         [s EXCEPT !.airQualityData = c.data, !.airQualityId = orOne(c.nextId)]
    [] name = "traffic" ->
         [s EXCEPT !.trafficData = c.data, !.trafficId = orOne(c.nextId)]
    [] name = "reports" ->
         [s EXCEPT !.reports = c.reports, !.reportId = orOne(c.nextId)]
    [] name = "locations" ->
         [s EXCEPT !.locations = c.locations]
    [] name = "predictions" ->
         [s EXCEPT !.predictions = c.predictions, !.predictionId = orOne(c.nextId)]

\* loadFromDisk from the i-th file on: a missing file is skipped, a file that
\* does not parse throws into the catch, which ends the load where it stands
RECURSIVE loadFromDiskFrom(_, _, _)
loadFromDiskFrom(s, files, i) ==
  IF i > Len(FileOrder) THEN s
  ELSE LET f == files[FileOrder[i]]
       IN  IF ~f.exists THEN loadFromDiskFrom(s, files, i + 1)
           ELSE IF ~f.parses THEN s
           ELSE loadFromDiskFrom(loadFile(s, FileOrder[i], f.content), files, i + 1)

\* FileStorage.loadFromDisk into the MemStorage s
loadFromDisk(s, files) == loadFromDiskFrom(s, files, 1)

\* FileStorage.saveToDisk; the catch logs a failed write and returns
SaveToDisk(k, cut) ==
  /\ disk' = filesAfterSave(disk, Store, k, cut)
  /\ ret' = [op |-> "saveToDisk", written |-> k, threw |-> FALSE]
  /\ UNCHANGED <<memVars, now, sheet, gs, phase>>

\* a new process: storage = new MemStorage(), then new FileStorage(storage),
\* whose constructor runs loadFromDisk
InitializeFileStorage(t) ==
  /\ t \in ClockReads
  /\ SetStore(loadFromDisk(ConstructedStore(t), disk))
  /\ now' = t
  /\ ret' = [op |-> "loadFromDisk"]
  /\ UNCHANGED envVars

----------------------------------------------------------------------------
(* GoogleSheetsStorage: one sheet per collection, cells held as text *)

\* a number written into a cell comes back as its decimal text
Text(n) == <<"text", n>>
\* parseInt of the text of a non-negative integer
parseInt(c) == c[2]

SheetNames == {"Users", "AirQualityData", "TrafficData", "Reports", "Locations", "Predictions"}

\* the rows under the header row of each sheet of a spreadsheet without data
EmptySheets == [n \in SheetNames |-> <<>>]

\* the id counters as the field initialisers set them
FreshCounters ==
  [userId |-> 1, airQualityId |-> 1, trafficId |-> 1, reportId |-> 1, predictionId |-> 1]

HeaderRow == [header |-> TRUE]

\* getSheetData: header row and data rows; a failed read is caught and gives []
getSheetData(sh, name, unreadable) ==
  IF name \in unreadable THEN <<>> ELSE <<HeaderRow>> \o sh[name]

\* appendRow
appendRow(g, name, row) == [g EXCEPT !.sheet[name] = Append(@, row)]

gsAddLocation(g, loc) ==
  appendRow(g, "Locations", [id |-> loc.id, name |-> loc.name])

gsAddAirQualityData(g, d, t) ==
  [appendRow(g, "AirQualityData",
             [id |-> Text(g.ctr.airQualityId), locationId |-> d.locationId,
              aqi |-> Text(d.aqi), timestamp |-> toISOString(Date(t))])
     EXCEPT !.ctr.airQualityId = @ + 1]

gsAddTrafficData(g, d, t) ==
  [appendRow(g, "TrafficData",
             [id |-> Text(g.ctr.trafficId), locationId |-> d.locationId,
              congestionLevel |-> Text(d.congestionLevel),
              isHotspot |-> IF d.isHotspot THEN "true" ELSE "false",
              timestamp |-> toISOString(Date(t))])
     EXCEPT !.ctr.trafficId = @ + 1]

gsCreateReport(g, r, t) ==
  [appendRow(g, "Reports",
             [id |-> Text(g.ctr.reportId), issueType |-> r.issueType,
              status |-> r.status, createdAt |-> toISOString(Date(t)),
              updatedAt |-> toISOString(Date(t))])
     EXCEPT !.ctr.reportId = @ + 1]

\* getLocations: [] when the sheet holds the header only or cannot be read
gsGetLocations(sh, unreadable) ==
  LET data == getSheetData(sh, "Locations", unreadable)
  IN  IF Len(data) <= 1 THEN <<>> ELSE Tail(data)

\* the sample data of initializeSampleData
indianCities ==
  << [id |-> "delhi", name |-> "Delhi"], [id |-> "mumbai", name |-> "Mumbai"],
     [id |-> "bangalore", name |-> "Bangalore"], [id |-> "chennai", name |-> "Chennai"],
     [id |-> "kolkata", name |-> "Kolkata"], [id |-> "hyderabad", name |-> "Hyderabad"],
     [id |-> "pune", name |-> "Pune"], [id |-> "ahmedabad", name |-> "Ahmedabad"] >>

airQualityLevels == <<204, 142, 95, 89, 156, 101, 85, 132>>
trafficLevels == <<85, 78, 75, 65, 72, 62, 58, 52>>

sampleReports ==
  << [issueType |-> "AirPollution", status |-> "open"],
     [issueType |-> "TrafficCongestion", status |-> "inProgress"],
     [issueType |-> "NoisePollution", status |-> "open"],
     [issueType |-> "WaterPollution", status |-> "resolved"],
     [issueType |-> "GarbageDisposal", status |-> "open"] >>

\* one add/create call of initializeSampleData for the i-th sample of a list
gsAddSample(g, kind, i, t) ==
  CASE kind = "location"   -> gsAddLocation(g, indianCities[i])
    [] kind = "airQuality" ->
         gsAddAirQualityData(g, [locationId |-> indianCities[i].id,
                                 aqi |-> airQualityLevels[i]], t)
    [] kind = "traffic"    ->
         gsAddTrafficData(g, [locationId |-> indianCities[i].id,
                              congestionLevel |-> trafficLevels[i],
                              isHotspot |-> trafficLevels[i] > 70], t)
    [] kind = "report"     -> gsCreateReport(g, sampleReports[i], t)

RECURSIVE gsAddSamples(_, _, _, _, _)
gsAddSamples(g, kind, i, n, t) ==
  IF i > n THEN g ELSE gsAddSamples(gsAddSample(g, kind, i, t), kind, i + 1, n, t)

\* Math.max(...rows.map(row => parseInt(row[0]) || 0))
maxRowId(rows) == Max({parseInt(rows[i].id) : i \in 1..Len(rows)} \cup {0})

\* initializeCounters: a counter is set only when its sheet shows data rows
counterAfterInit(sh, name, unreadable) ==
  LET data == getSheetData(sh, name, unreadable)
  IN  IF Len(data) > 1 THEN maxRowId(Tail(data)) + 1 ELSE 1

initializeCounters(g, unreadable) ==
  [g EXCEPT !.ctr =
     [userId       |-> counterAfterInit(g.sheet, "Users", unreadable),
      airQualityId |-> counterAfterInit(g.sheet, "AirQualityData", unreadable),
      trafficId    |-> counterAfterInit(g.sheet, "TrafficData", unreadable),
      reportId     |-> counterAfterInit(g.sheet, "Reports", unreadable),
      predictionId |-> counterAfterInit(g.sheet, "Predictions", unreadable)]]

\* initializeSampleData: the samples are added when getLocations shows none
initializeSampleData(g, unreadable, t) ==
  IF gsGetLocations(g.sheet, unreadable) # <<>> THEN g
  ELSE LET g1 == gsAddSamples(g, "location", 1, Len(indianCities), t)
           g2 == gsAddSamples(g1, "airQuality", 1, Len(airQualityLevels), t)
           g3 == gsAddSamples(g2, "traffic", 1, Len(trafficLevels), t)
       IN  gsAddSamples(g3, "report", 1, Len(sampleReports), t)

\* new GoogleSheetsStorage(id), then initializeSpreadsheet running to its end
initializeSpreadsheet(sh, unreadable, t) ==
  initializeSampleData(
    initializeCounters([sheet |-> sh, ctr |-> FreshCounters], unreadable),
    unreadable, t)

\* the spreadsheet an earlier run of the server left behind
SheetsOfEarlierRun == initializeSpreadsheet(EmptySheets, {}, 0).sheet

----------------------------------------------------------------------------
(* Server start-up *)

\* Object.assign(storage, sheetsStorage) copies the own enumerable properties
\* of the GoogleSheetsStorage instance (sheets, spreadsheetId and the five id
\* counters) onto the MemStorage singleton; the methods, which live on the
\* prototypes, and the six collections stay MemStorage's
objectAssign(s, ctr) ==
  [s EXCEPT !.userId = ctr.userId, !.airQualityId = ctr.airQualityId,
            !.trafficId = ctr.trafficId, !.reportId = ctr.reportId,
            !.predictionId = ctr.predictionId]

\* start-up without credentials, or with a failure before the spreadsheet
\* store is initialised: the routes are registered over the MemStorage
StartupMemory ==
  /\ phase = "init"
  /\ phase' = "memory"
  /\ ret' = [op |-> "startup", switched |-> FALSE]
  /\ UNCHANGED <<memVars, now, disk, sheet, gs>>

\* start-up with credentials and initializeSpreadsheet succeeding; the reads
\* of the sheets in unreadable fail (getSheetData catches and returns [])
StartupSwitch(unreadable, t) ==
  /\ phase = "init"
  /\ t \in ClockReads
  /\ LET g == initializeSpreadsheet(sheet, unreadable, t)
     IN  /\ sheet' = g.sheet
         /\ gs' = g.ctr
         /\ SetStore(objectAssign(Store, g.ctr))
         /\ now' = t
  /\ phase' = "switched"
  /\ ret' = [op |-> "startup", switched |-> TRUE]
  /\ UNCHANGED disk

\* the stages of the set-up that can fail: getOrCreateSpreadsheet on the
\* credentials or on the lookup/creation, the GoogleSheetsStorage constructor,
\* and initializeSpreadsheet before its first write or while it appends the
\* sample data
SetupFailures == {"credentials", "lookup", "constructor", "sheets", "sampleData"}

\* the storage singleton after the try block of the start-up: Object.assign is
\* the statement after "await sheetsStorage.initializeSpreadsheet()" and is
\* skipped by every throw before it
storageAfterSetupAssigned(s, ctr, failedAt) == objectAssign(s, ctr)
storageAfterSetup(s, ctr, failedAt) ==
  IF failedAt = "none" THEN objectAssign(s, ctr) ELSE s

\* initializeSampleData failing at the append of its (k + 1)-th air-quality
\* sample: the locations and k samples are in the sheets
sampleDataUntil(g, k, t) ==
  IF gsGetLocations(g.sheet, {}) # <<>> THEN g
  ELSE gsAddSamples(gsAddSamples(g, "location", 1, Len(indianCities), t),
                    "airQuality", 1, k, t)

\* start-up with a failure in the set-up of the spreadsheet store: the catch
\* blocks log, the GoogleSheetsStorage instance (if any) is dropped, and the
\* routes are registered over the MemStorage
StartupFallback(failedAt, k, t) ==
  /\ phase = "init"
  /\ failedAt \in SetupFailures
  /\ t \in ClockReads
  /\ LET g0 == [sheet |-> sheet, ctr |-> FreshCounters]
         g == IF failedAt = "sampleData"
              THEN sampleDataUntil(initializeCounters(g0, {}), k, t)
              ELSE g0
     IN  /\ sheet' = g.sheet
         /\ SetStore(storageAfterSetup(Store, g.ctr, failedAt))
  /\ phase' = "memory"
  /\ ret' = [op |-> "startup", switched |-> FALSE, failedAt |-> failedAt]
  /\ UNCHANGED <<now, disk, gs>>

\* GoogleSheetsStorage.addLocation on the initialised instance; appendRow
\* logs a failed append and throws it again, and addLocation has no catch
GsAddLocation(input, ok) ==
  /\ phase = "switched"
  /\ Len(sheet.Locations) < Len(indianCities) + MaxNew
  /\ sheet' = IF ok THEN gsAddLocation([sheet |-> sheet, ctr |-> gs], input).sheet ELSE sheet
  /\ ret' = [op |-> "gsAddLocation", ok |-> ok, threw |-> ~ok, value |-> input]
  /\ UNCHANGED <<memVars, now, disk, gs, phase>>

\* GoogleSheetsStorage.getLocations on the initialised instance
GsGetLocations(readable) ==
  /\ phase = "switched"
  /\ ret' = [op |-> "gsGetLocations", ok |-> readable,
             value |-> gsGetLocations(sheet, IF readable THEN {} ELSE {"Locations"})]
  /\ UNCHANGED <<memVars, now, envVars>>

----------------------------------------------------------------------------
(* Initial states *)

\* the process after its modules are loaded: the MemStorage singleton is
\* constructed, nothing is saved, the start-up has not run
InitBase ==
  /\ InitStore(ConstructedStore(0))
  /\ now = 0
  /\ ret = [op |-> "none"]
  /\ disk = [n \in Range(FileOrder) |-> NoFile]
  /\ gs = FreshCounters
  /\ phase = "init"

Init ==
  /\ InitBase
  /\ sheet = EmptySheets

\* the spreadsheet is new, or an earlier run of the server filled it
InitStartup ==
  /\ InitBase
  /\ sheet \in {EmptySheets, SheetsOfEarlierRun}

----------------------------------------------------------------------------
(* Specifications *)

\* report creation and status updates
NextReports ==
  \/ \E input \in ReportInputs, t \in ClockReads : CreateReport(input, t)
  \/ \E id \in UpdateIds, status \in Statuses, t \in ClockReads :
       UpdateReport(id, status, t)

SpecReports == Init /\ [][NextReports]_vars

\* at most MaxNew entities on top of the sample data, over all collections
NewEntities ==
  Len(users) + Len(Flatten(airQualityData)) + Len(Flatten(trafficData))
    + Len(reports) + Len(Flatten(predictions))
    - (Len(airQualitySamples) + Len(trafficSamples) + Len(reportSamples)
         + Len(predictionSamples))

\* start-up, then entity creation in every collection, snapshots and reloads;
\* the ids do not depend on the clock, which stands still here
NextStartup ==
  \/ StartupMemory
  \/ \E unreadable \in {{}, {"Predictions", "Locations"}} : StartupSwitch(unreadable, now)
  \/ \E input \in {x \in UserInputs : x.role = "user"} :
       NewEntities < MaxNew /\ CreateUser(input, now)
  \/ \E input \in {x \in AirQualityInputs : x.locationId = "harbor" /\ x.aqi = 40} :
       NewEntities < MaxNew /\ AddAirQualityData(input, now)
  \/ \E input \in {x \in TrafficInputs :
                      x.locationId = "harbor" /\ x.congestionLevel = 95 /\ x.isHotspot} :
       NewEntities < MaxNew /\ AddTrafficData(input, now)
  \/ \E input \in {x \in ReportInputs : x.issueType = "flooding"} :
       NewEntities < MaxNew /\ CreateReport(input, now)
  \/ \E input \in {x \in PredictionInputs : x.locationId = "downtown"} :
       NewEntities < MaxNew /\ AddPrediction(input, now)
  \/ \E cut \in BOOLEAN : SaveToDisk(IF cut THEN 3 ELSE Len(FileOrder), cut)
  \/ InitializeFileStorage(now)

SpecStartup == InitStartup /\ [][NextStartup]_vars

----------------------------------------------------------------------------
(* Claims on createReport and updateReport *)

\* the fields updateReport has to leave alone
ReportFrameFields ==
  {"id", "issueType", "location", "description", "photoUrl", "userId", "createdAt"}

\* C1: an updateReport(id, s) step on a store holding a report with that id
\* leaves that report with status s, an updatedAt not earlier than before and
\* every other field as it was, returns it, and changes no other report; with
\* no such report it returns absent and leaves the reports as they were.
C1_UpdateReportFrame ==
  [][ ret'.op = "updateReport" =>
        LET hit == {i \in 1..Len(reports) : reports[i].id = ret'.id}
        IN  IF hit = {}
            THEN ret'.value = Absent /\ reports' = reports
            ELSE /\ Len(reports') = Len(reports)
                 /\ \A i \in 1..Len(reports) :
                      IF i \in hit
                      THEN /\ reports'[i].status = ret'.status
                           /\ getTime(reports'[i].updatedAt) >= getTime(reports[i].updatedAt)
                           /\ \A f \in ReportFrameFields : reports'[i][f] = reports[i][f]
                           /\ ret'.value = reports'[i]
                      ELSE reports'[i] = reports[i] ]_vars

\* an update of a report created after the sample data, at a later clock
\* reading than its creation
C1_Witness ==
  /\ ret.op = "updateReport"
  /\ ret.value # Absent
  /\ ret.id > Len(reportSamples)
  /\ ret.value.status = "urgent"
  /\ getTime(ret.value.updatedAt) > getTime(ret.value.createdAt)

\* C2: a createReport step appends one report, whose id is the report counter
\* before the call, whose status is "pending" and whose createdAt equals its
\* updatedAt, whatever the input carries, and returns it.
C2_CreateReportPending ==
  [][ ret'.op = "createReport" =>
        /\ ret'.value.status = "pending"
        /\ ret'.value.createdAt = ret'.value.updatedAt
        /\ ret'.value.id = reportId
        /\ reportId' = reportId + 1
        /\ reports' = Append(reports, ret'.value) ]_vars

\* a report created from an input that carries a status and dates of its own
C2_Witness ==
  /\ ret.op = "createReport"
  /\ "status" \in DOMAIN ret.input
  /\ ret.input.status = "resolved"
  /\ ret.input.createdAt # ret.input.updatedAt
  /\ ret.value.status = "pending"
  /\ reports[Len(reports)] = ret.value

----------------------------------------------------------------------------
(* Claims on entity ids *)

Ids(xs) == [i \in 1..Len(xs) |-> xs[i].id]
Distinct(xs) == \A i, j \in 1..Len(xs) : xs[i] = xs[j] => i = j

\* the ids of the collection a create/add operation writes to
IdsWrittenBy(op) ==
  CASE op = "createUser"        -> Ids(MapValues(users))
    [] op = "addAirQualityData" -> Ids(Flatten(airQualityData))
    [] op = "addTrafficData"    -> Ids(Flatten(trafficData))
    [] op = "createReport"      -> Ids(reports)
    [] op = "addPrediction"     -> Ids(Flatten(predictions))

CreateOps ==
  {"createUser", "addAirQualityData", "addTrafficData", "createReport", "addPrediction"}

\* C3: in every reachable state the ids within each collection are pairwise
\* distinct, and the entity a create/add operation has just made is the only
\* one of its collection whose id is not below the new id.
C3_IdsUniqueAndIncreasing ==
  /\ \A op \in CreateOps : Distinct(IdsWrittenBy(op))
  /\ ret.op \in CreateOps =>
       LET ids == IdsWrittenBy(ret.op)
       IN  Cardinality({i \in 1..Len(ids) : ids[i] >= ret.value.id}) = 1

----------------------------------------------------------------------------
(* Claims on the location collection *)

\* addLocation and getLocations of both stores; the spreadsheet store is the
\* instance the start-up has initialised
NextLocations ==
  \/ StartupMemory
  \/ StartupSwitch({}, now)
  \/ \E failedAt \in SetupFailures, k \in 1..MaxNew : StartupFallback(failedAt, k, now)
  \/ \E input \in LocationInputs : AddLocation(input)
  \/ GetLocations
  \/ \E input \in LocationInputs, ok \in BOOLEAN : GsAddLocation(input, ok)
  \/ \E readable \in BOOLEAN : GsGetLocations(readable)

SpecLocations == Init /\ [][NextLocations]_vars

\* the entries of a location list that carry the id
WithId(ls, id) == {i \in 1..Len(ls) : ls[i].id = id}

\* C4: getLocations of either store lists no location id twice, and after
\* addLocation(l) the list holds exactly one entry with l's id, which is l
\* (a re-added id replaces the earlier entry).
C4_LocationsOnceEach ==
  /\ ret.op = "getLocations" => Distinct(Ids(ret.value))
  /\ ret.op = "addLocation" =>
       LET ls == MapValues(locations)
       IN  /\ Cardinality(WithId(ls, ret.value.id)) = 1
           /\ \A i \in WithId(ls, ret.value.id) : ls[i] = ret.value
  /\ (ret.op = "gsGetLocations" /\ ret.ok) => Distinct(Ids(ret.value))
  /\ (ret.op = "gsAddLocation" /\ ret.ok) =>
       LET ls == gsGetLocations(sheet, {})
       IN  /\ Cardinality(WithId(ls, ret.value.id)) = 1
           /\ \A i \in WithId(ls, ret.value.id) : ls[i] = ret.value

----------------------------------------------------------------------------
(* MemStorage.getReports *)

\* pages and page sizes asked for
MaxPage == 3
MaxPerPage == 3
\* reports in the store, the three samples included
MaxReports == 5

\* the characters of the issue types and filters in use
Chars(str) ==
  CASE str = "airPollution"      -> <<"a","i","r","P","o","l","l","u","t","i","o","n">>
    [] str = "trafficCongestion" -> <<"t","r","a","f","f","i","c","C","o","n","g","e","s","t","i","o","n">>
    [] str = "flooding"          -> <<"f","l","o","o","d","i","n","g">>
    [] str = "noisePollution"    -> <<"n","o","i","s","e","P","o","l","l","u","t","i","o","n">>
    [] str = "pollution"         -> <<"p","o","l","l","u","t","i","o","n">>
    [] str = "Flood"             -> <<"F","l","o","o","d">>
    [] str = "all"               -> <<"a","l","l">>

\* String.prototype.toLowerCase over the letters in use
toLowerCase(cs) ==
  [i \in 1..Len(cs) |->
     CASE cs[i] = "P" -> "p" [] cs[i] = "C" -> "c" [] cs[i] = "F" -> "f" [] OTHER -> cs[i]]

\* String.prototype.includes
includes(hay, needle) ==
  \E k \in 0..(Len(hay) - Len(needle)) : SubSeq(hay, k + 1, k + Len(needle)) = needle

\* the filter callback of getReports
matchesFilter(report, filter) ==
  includes(toLowerCase(Chars(report.issueType)), toLowerCase(Chars(filter)))

\* formatStatus(status).label
formatStatus(status) ==
  CASE status = "pending"     -> "Pending"
    [] status = "in_progress" -> "In Progress"
    [] status = "resolved"    -> "Resolved"
    [] status = "urgent"      -> "Urgent"
    [] OTHER                  -> "Unknown"

\* the object getReports makes of a report for the frontend: the id as a
\* string and the status label (the texts derived from issueType, location
\* and the date are left out)
formattedReport(report) ==
  [id |-> Text(report.id), status |-> formatStatus(report.status)]

\* the comparator of getReports' sort: newest createdAt first
NewerReport(a, b) == getTime(a.createdAt) > getTime(b.createdAt)

\* getReports' sort with the comparator turned round
sortReportsOldestFirst(rs) ==
  SortStable(rs, [i \in 1..Len(rs) |-> [j \in 1..Len(rs) |-> NewerReport(rs[j], rs[i])]])

\* filteredReports.sort(...): a copy of the stored list is sorted
sortReports(rs) ==
  SortStable(rs, [i \in 1..Len(rs) |-> [j \in 1..Len(rs) |-> NewerReport(rs[i], rs[j])]])

\* Math.ceil(n / d) for n >= 0, d >= 1
\* the page count rounded down
floorDiv(n, d) == n \div d

ceilDiv(n, d) == IF n % d = 0 THEN n \div d ELSE (n \div d) + 1

\* MemStorage.getReports
getReports(rs, filter, page, perPage) ==
  LET filteredReports ==
        IF filter # "all"
        THEN SelectSeq(rs, LAMBDA report : matchesFilter(report, filter))
        ELSE rs
      sorted == sortReports(filteredReports)
      startIndex == (page - 1) * perPage
      endIndex == startIndex + perPage
      paginatedReports == Slice(sorted, startIndex, endIndex)
  IN  [ reports |-> [i \in 1..Len(paginatedReports) |-> formattedReport(paginatedReports[i])],
        total |-> Len(filteredReports),
        page |-> page,
        perPage |-> perPage,
        totalPages |-> ceilDiv(Len(filteredReports), perPage) ]

ReportFilters == {"all", "pollution", "Flood"}

\* getReports with filter and sort applied to this.reports itself
reportsSortedInPlace(rs, filter) ==
  sortReports(IF filter # "all"
              THEN SelectSeq(rs, LAMBDA report : matchesFilter(report, filter))
              ELSE rs)

\* this.reports after getReports: "[...this.reports]" copies the array, and
\* filter, sort and slice work on the copy
reportsAfterGetReports(rs, filter) == rs

GetReports(filter, page, perPage) ==
  /\ ret' = [op |-> "getReports", filter |-> filter, page |-> page, perPage |-> perPage,
             value |-> getReports(reports, filter, page, perPage)]
  /\ reports' = reportsAfterGetReports(reports, filter)
  /\ UNCHANGED <<users, airQualityData, trafficData, locations, predictions,
                 userId, airQualityId, trafficId, reportId, predictionId, now, envVars>>

\* the inputs of the createReport calls that fill the store: the samples of
\* the constructor, then request bodies
reportInputAt(i) ==
  IF i <= Len(reportSamples) THEN reportSamples[i]
  ELSE CHOOSE x \in ReportInputs :
         x.issueType = (IF i % 2 = 0 THEN "flooding" ELSE "noisePollution")

\* clock readings of successive createReport calls: the clock stands or moves
\* on by a millisecond between two calls
ReportTimes(n) ==
  { [i \in 1..n |-> Cardinality({j \in 1..i : g[j]})] : g \in [1..n -> BOOLEAN] }

\* the store after the constructor and up to MaxReports - 3 createReport
\* calls, the clock read anew by every createReport
InitGetReports ==
  /\ \E n \in Len(reportSamples)..MaxReports : \E times \in ReportTimes(n) :
       /\ InitStore(createReportsAt(StoreBeforeReports(0),
                                    [i \in 1..n |-> reportInputAt(i)], times))
       /\ now = times[n]
  /\ ret = [op |-> "none"]
  /\ disk = [n \in Range(FileOrder) |-> NoFile]
  /\ sheet = EmptySheets
  /\ gs = FreshCounters
  /\ phase = "init"

NextGetReports ==
  \E filter \in ReportFilters, page \in 1..MaxPage, perPage \in 1..MaxPerPage :
    GetReports(filter, page, perPage)

SpecGetReports == InitGetReports /\ [][NextGetReports]_vars

\* the stored reports created later than r
NewerThan(r) == {i \in 1..Len(reports) : getTime(reports[i].createdAt) > getTime(r.createdAt)}

DistinctCreatedAt ==
  \A i, j \in 1..Len(reports) : reports[i].createdAt = reports[j].createdAt => i = j

\* C5: with pairwise distinct createdAt, getReports('all', page, perPage)
\* returns, in this order, the reports ranked (page-1)*perPage+1 to
\* page*perPage by descending createdAt (fewer when the list runs out), total
\* is the number of reports and totalPages the least k with k * perPage >=
\* total; five reports, page 1, perPage 2 give the two newest and 3 pages.
C5_ReportsPageNewestFirst ==
  (ret.op = "getReports" /\ ret.filter = "all" /\ DistinctCreatedAt) =>
    LET N == Len(reports)
        first == (ret.page - 1) * ret.perPage + 1
        last == IF ret.page * ret.perPage < N THEN ret.page * ret.perPage ELSE N
        page == ret.value.reports
    IN  /\ ret.value.total = N
        /\ ret.value.totalPages * ret.perPage >= N
        /\ (ret.value.totalPages - 1) * ret.perPage < N
        /\ Len(page) = (IF last < first THEN 0 ELSE last - first + 1)
        /\ \A k \in 1..Len(page) :
             \E i \in 1..N : /\ page[k].id = Text(reports[i].id)
                             /\ Cardinality(NewerThan(reports[i])) = first + k - 2
        /\ (N = 5 /\ ret.page = 1 /\ ret.perPage = 2) => ret.value.totalPages = 3

\* five reports with distinct createdAt, page 1 of size 2: the reports created
\* last and last but one
C5_Witness ==
  /\ ret.op = "getReports" /\ ret.filter = "all" /\ DistinctCreatedAt
  /\ Len(reports) = 5 /\ ret.page = 1 /\ ret.perPage = 2
  /\ ret.value.totalPages = 3
  /\ [k \in 1..Len(ret.value.reports) |-> ret.value.reports[k].id] = <<Text(5), Text(4)>>

----------------------------------------------------------------------------
(* MemStorage.getTrafficHotspots *)

\* traffic samples in a snapshot
MaxSamples == 4

\* getTrafficData() without a locationId: the lists of all locations, in the
\* Map's insertion order
getTrafficData(s) == Flatten(s.trafficData)

\* the severity rule with M reaching down to 60
severityFrom60(congestionLevel) ==
  IF congestionLevel >= 90 THEN "H"
  ELSE IF congestionLevel >= 60 THEN "M"
  ELSE "L"

\* severity of a hotspot: 'L' unless the level is at least 90 or 70
severity(congestionLevel) ==
  IF congestionLevel >= 90 THEN "H"
  ELSE IF congestionLevel >= 70 THEN "M"
  ELSE "L"

\* MemStorage.getTrafficHotspots
getTrafficHotspots(s) ==
  LET allTrafficData == getTrafficData(s)
      hotspotData ==
        SelectSeq(allTrafficData, LAMBDA data : data.isHotspot \/ data.congestionLevel > 70)
      \* "if (!location) continue"
      located == SelectSeq(hotspotData, LAMBDA data : MapHas(s.locations, data.locationId))
      hotspots ==
        [i \in 1..Len(located) |->
           [ id |-> Text(located[i].id),
             location |-> MapGet(s.locations, located[i].locationId).name,
             congestionLevel |-> located[i].congestionLevel,
             severity |-> severity(located[i].congestionLevel) ]]
  IN  SortStable(hotspots,
                 [i \in 1..Len(hotspots) |-> [j \in 1..Len(hotspots) |->
                    hotspots[i].congestionLevel > hotspots[j].congestionLevel]])

GetTrafficHotspots ==
  /\ ret' = [op |-> "getTrafficHotspots", value |-> getTrafficHotspots(Store)]
  /\ UNCHANGED <<memVars, now, envVars>>

\* congestion level and isHotspot flag of the samples drawn
HotspotSamples ==
  { <<95, FALSE>>, <<72, FALSE>>, <<68, TRUE>>, <<68, FALSE>>, <<40, FALSE>>, <<40, TRUE>> }

\* lists of up to MaxSamples addTrafficData inputs, the i-th at the i-th
\* sample location
TrafficSampleLists ==
  UNION { { [i \in 1..n |->
               [ locationId |-> locationSamples[((i - 1) % Len(locationSamples)) + 1].id,
                 congestionLevel |-> f[i][1], isHotspot |-> f[i][2] ]] :
            f \in [1..n -> HotspotSamples] } : n \in 0..MaxSamples }

\* the traffic file a process left whose traffic collection held the samples
trafficSnapshot(samples) ==
  [ [n \in Range(FileOrder) |-> NoFile] EXCEPT
      !["traffic"] = fileImage(ForEach(EmptyStore, "traffic", samples, 0), "traffic") ]

\* the store as constructed, or after FileStorage loaded a traffic snapshot
InitHotspots ==
  /\ \/ disk = [n \in Range(FileOrder) |-> NoFile]
     \/ \E samples \in TrafficSampleLists : disk = trafficSnapshot(samples)
  /\ InitStore(loadFromDisk(ConstructedStore(0), disk))
  /\ now = 0
  /\ ret = [op |-> "none"]
  /\ sheet = EmptySheets
  /\ gs = FreshCounters
  /\ phase = "init"

NextHotspots == GetTrafficHotspots

SpecHotspots == InitHotspots /\ [][NextHotspots]_vars

\* the stored samples are the four of the example, at stored locations
HotspotExample ==
  LET all == Flatten(trafficData)
  IN  /\ [i \in 1..Len(all) |-> all[i].congestionLevel] = <<95, 72, 68, 40>>
      /\ [i \in 1..Len(all) |-> all[i].isHotspot] = <<FALSE, FALSE, TRUE, FALSE>>
      /\ \A i \in 1..Len(all) : MapHas(locations, all[i].locationId)

Levels(hs) == [i \in 1..Len(hs) |-> hs[i].congestionLevel]
Severities(hs) == [i \in 1..Len(hs) |-> hs[i].severity]

\* C6 as stated: on samples 95, 72, 68, 40 of which only the 68 is flagged,
\* getTrafficHotspots returns the hotspots 95, 72, 68 with severities H, M, M.
C6_HotspotsSeveritiesHMM ==
  (ret.op = "getTrafficHotspots" /\ HotspotExample) =>
    /\ Levels(ret.value) = <<95, 72, 68>>
    /\ Severities(ret.value) = <<"H", "M", "M">>

\* C6, amended: on samples 95, 72, 68, 40 of which only the 68 is flagged,
\* getTrafficHotspots returns the hotspots 95, 72, 68, in this order, with
\* severities H, M, L (the flagged 68 is below 70).
C6_HotspotsSeveritiesHML ==
  (ret.op = "getTrafficHotspots" /\ HotspotExample) =>
    /\ Levels(ret.value) = <<95, 72, 68>>
    /\ Severities(ret.value) = <<"H", "M", "L">>

\* getTrafficHotspots has answered on the example's samples
C6_Witness ==
  /\ ret.op = "getTrafficHotspots"
  /\ HotspotExample
  /\ Len(ret.value) = 3

----------------------------------------------------------------------------
(* Claims on getPrediction *)

NextPredictions ==
  \/ \E input \in PredictionInputs, t \in ClockReads : AddPrediction(input, t)
  \/ \E locationId \in PredictionLocations, type \in PredictionTypes :
       GetPrediction(locationId, type)

SpecPredictions == Init /\ [][NextPredictions]_vars

\* the predictions stored for the pair the last getPrediction asked for
AskedPredictions ==
  LET key == predictionKey(ret.locationId, ret.type)
  IN  IF MapHas(predictions, key) THEN MapGet(predictions, key) ELSE <<>>

\* C7: getPrediction returns absent for a pair without predictions; for a
\* pair whose predictions have pairwise distinct createdAt it returns the one
\* with the latest createdAt, in whatever order the list was stored.
C7_PredictionLatestCreatedAt ==
  ret.op = "getPrediction" =>
    LET ps == AskedPredictions
    IN  IF ps = <<>> THEN ret.value = Absent
        ELSE (\A i, j \in 1..Len(ps) : ps[i].createdAt = ps[j].createdAt => i = j) =>
               /\ ret.value \in Range(ps)
               /\ \A i \in 1..Len(ps) :
                    getTime(ps[i].createdAt) <= getTime(ret.value.createdAt)

\* three predictions of one pair with increasing createdAt, stored neither
\* oldest first nor newest first when getPrediction was called
C7_Witness ==
  /\ ret.op = "getPrediction"
  /\ Len(ret.stored) = 3
  /\ ret.stored[1] > ret.stored[2] /\ ret.stored[2] < ret.stored[3]
  /\ \A i, j \in 1..3 :
       AskedPredictions[i].createdAt = AskedPredictions[j].createdAt => i = j
  /\ ret.value.id = Max(Range(ret.stored))

\* C8: for a pair with predictions, getPrediction returns the one made by the
\* last addPrediction call for the pair (the highest id), also when several
\* of them carry the same createdAt.
C8_PredictionLastAdded ==
  (ret.op = "getPrediction" /\ ret.stored # <<>>) =>
    ret.value.id = Max(Range(ret.stored))

----------------------------------------------------------------------------
(* Claims on the snapshot files *)

\* nothing has been saved yet
NothingSaved == \A name \in DOMAIN disk : disk[name] = NoFile

\* the store may be worked on before the first save and once after every load
MayWork == NothingSaved \/ ret.op = "loadFromDisk"

\* create/add/update operations, full saves, and new processes that start
\* after a save and load what was saved; the clock moves on in updateReport
NextSnapshot ==
  \/ \E input \in {x \in ReportInputs : x.issueType = "noisePollution"} :
       MayWork /\ NewEntities < MaxNew /\ CreateReport(input, now)
  \/ \E t \in ClockReads : MayWork /\ UpdateReport(reportId - 1, "resolved", t)
  \/ \E input \in {x \in UserInputs : x.role = "admin"} :
       MayWork /\ NewEntities < MaxNew /\ CreateUser(input, now)
  \/ \E input \in {x \in AirQualityInputs : x.locationId = "downtown" /\ x.aqi = 180} :
       MayWork /\ NewEntities < MaxNew /\ AddAirQualityData(input, now)
  \/ \E input \in {x \in TrafficInputs :
                      x.locationId = "harbor" /\ x.congestionLevel = 68 /\ ~x.isHotspot} :
       MayWork /\ NewEntities < MaxNew /\ AddTrafficData(input, now)
  \/ \E input \in {x \in PredictionInputs : x.locationId = "downtown" /\ x.type = "air"} :
       MayWork /\ NewEntities < MaxNew /\ AddPrediction(input, now)
  \/ \E input \in {x \in LocationInputs : x.id = "harbor" /\ x.name = "Harbor"} :
       MayWork /\ AddLocation(input)
  \/ SaveToDisk(Len(FileOrder), FALSE)
  \/ ret.op = "saveToDisk" /\ InitializeFileStorage(now)

SpecSnapshot == Init /\ [][NextSnapshot]_vars

\* an entity as the program reads it: its Date-valued fields, which every
\* reader passes through new Date(x), by their instant
Seen(x) ==
  [k \in DOMAIN x |->
     IF k \in {"createdAt", "updatedAt", "timestamp"} THEN getTime(x[k]) ELSE x[k]]

SeenList(xs) == [i \in 1..Len(xs) |-> Seen(xs[i])]

\* the observable state of a store: the entities of the six collections in
\* their stored order, and the five counters
Observed(s) ==
  [ users |-> [i \in 1..Len(s.users) |-> <<s.users[i][1], Seen(s.users[i][2])>>],
    airQualityData |->
      [i \in 1..Len(s.airQualityData) |->
         <<s.airQualityData[i][1], SeenList(s.airQualityData[i][2])>>],
    trafficData |->
      [i \in 1..Len(s.trafficData) |->
         <<s.trafficData[i][1], SeenList(s.trafficData[i][2])>>],
    reports |-> SeenList(s.reports),
    locations |-> s.locations,
    predictions |->
      [i \in 1..Len(s.predictions) |->
         <<s.predictions[i][1], SeenList(s.predictions[i][2])>>],
    userId |-> s.userId, airQualityId |-> s.airQualityId, trafficId |-> s.trafficId,
    reportId |-> s.reportId, predictionId |-> s.predictionId ]

\* C9: a saveToDisk that wrote all six files, followed by loadFromDisk into
\* the store of a new process, leaves that store with the same observable
\* state as the store that was saved: the same entities in every collection
\* (Date-valued fields come back as ISO strings of the same instant) and the
\* same five id counters.
C9_SnapshotRoundTrip ==
  [][ (ret.op = "saveToDisk" /\ ret.written = Len(FileOrder) /\ ret'.op = "loadFromDisk")
        => Observed(Store') = Observed(Store) ]_vars

\* a store loaded from the snapshot of a store that held a user, a report
\* created and updated at different clock readings past the construction, and
\* a location on top of the sample data
C9_Witness ==
  /\ ret.op = "loadFromDisk"
  /\ Store = loadFromDisk(ConstructedStore(now), disk)
  /\ \A name \in DOMAIN disk : disk[name] = fileImage(Store, name)
  /\ Len(users) > 0
  /\ MapHas(locations, "harbor")
  /\ \E i \in 1..Len(reports) :
       /\ reports[i].id > Len(reportSamples)
       /\ reports[i].createdAt = <<"string", 1>>
       /\ reports[i].updatedAt = <<"string", 2>>

----------------------------------------------------------------------------
(* calculateAQI: PM2.5 concentration to AQI *)

\* Concentrations are counted in hundredths of a microgram per cubic metre
\* (12.0 is 1200).  The interpolation is computed exactly and rounded as
\* Math.round does (halves go up); the floating-point result can differ from
\* it only where the exact value lies within rounding error of a half.

\* highest concentration asked for, in hundredths
MaxPm25 == 50100

breakpoints ==
  << [low |-> 0,     high |-> 1200,  aqiLow |-> 0,   aqiHigh |-> 50],
     [low |-> 1210,  high |-> 3540,  aqiLow |-> 51,  aqiHigh |-> 100],
     [low |-> 3550,  high |-> 5540,  aqiLow |-> 101, aqiHigh |-> 150],
     [low |-> 5550,  high |-> 15040, aqiLow |-> 151, aqiHigh |-> 200],
     [low |-> 15050, high |-> 25040, aqiLow |-> 201, aqiHigh |-> 300],
     [low |-> 25050, high |-> 50040, aqiLow |-> 301, aqiHigh |-> 500] >>

labels ==
  << "Good", "Moderate", "Unhealthy for Sensitive Groups", "Unhealthy",
     "Very Unhealthy", "Hazardous" >>

\* Math.round(n / d) for n >= 0, d > 0
roundDiv(n, d) == (2 * n + d) \div (2 * d)

\* the band test with the upper bound left out
inBandBelowHigh(pm25, b) == b.low <= pm25 /\ pm25 < b.high

\* low <= pm25 && pm25 <= high
inBand(pm25, b) == b.low <= pm25 /\ pm25 <= b.high

\* calculateAQI: the first band that holds the concentration gives the label
\* and the interpolated value; past the last band the result is fixed; a
\* concentration in no band and not above 500.4 falls through to the last
\* return
calculateAQI(pm25) ==
  LET found == {i \in 1..Len(breakpoints) : inBand(pm25, breakpoints[i])}
  IN  IF found # {}
      THEN LET i == CHOOSE k \in found : \A m \in found : k <= m
               b == breakpoints[i]
           IN  [ label |-> labels[i],
                 value |-> roundDiv((b.aqiHigh - b.aqiLow) * (pm25 - b.low)
                                      + b.aqiLow * (b.high - b.low),
                                    b.high - b.low) ]
      ELSE IF pm25 > 50040 THEN [label |-> "Hazardous", value |-> 501]
      ELSE [label |-> "Good", value |-> 0]

\* a call of calculateAQI with the concentration the caller passes
CalculateAQI ==
  /\ ret.op = "call"
  /\ ret' = [op |-> "calculateAQI", pm25 |-> ret.pm25, value |-> calculateAQI(ret.pm25)]
  /\ UNCHANGED <<memVars, now, envVars>>

\* a caller about to pass a concentration from 0 to MaxPm25
InitAQI ==
  /\ InitStore(ConstructedStore(0))
  /\ now = 0
  /\ ret \in {[op |-> "call", pm25 |-> pm25] : pm25 \in 0..MaxPm25}
  /\ disk = [n \in Range(FileOrder) |-> NoFile]
  /\ sheet = EmptySheets
  /\ gs = FreshCounters
  /\ phase = "init"

NextAQI == CalculateAQI

SpecAQI == InitAQI /\ [][NextAQI]_vars

\* C10: calculateAQI(12.0) is Good with value 50, calculateAQI(35.5) is
\* Unhealthy for Sensitive Groups with value 101, and every concentration
\* above 500.4 gives Hazardous with value 501.
C10_AqiBreakpointBounds ==
  ret.op = "calculateAQI" =>
    /\ ret.pm25 = 1200 => ret.value = [label |-> "Good", value |-> 50]
    /\ ret.pm25 = 3550 =>
         ret.value = [label |-> "Unhealthy for Sensitive Groups", value |-> 101]
    /\ ret.pm25 > 50040 => ret.value = [label |-> "Hazardous", value |-> 501]

\* calculateAQI has answered for 12.0, the upper bound of the first band
C10_Witness ==
  /\ ret.op = "calculateAQI"
  /\ ret.pm25 = 1200
  /\ ret.value.label = "Good"
  /\ ret.value.value = 50

----------------------------------------------------------------------------
(* MemStorage.getStatsOverview *)

\* reduce((sum, item) => sum + item, 0) over a list of numbers
RECURSIVE Sum(_)
Sum(xs) == IF xs = <<>> THEN 0 ELSE Head(xs) + Sum(Tail(xs))

\* `${n}%`
Percent(n) == <<n, "%">>

\* the status of the traffic block
congestionStatus(avgCongestion) ==
  IF avgCongestion > 80 THEN "Severe congestion"
  ELSE IF avgCongestion > 60 THEN "Moderate congestion"
  ELSE IF avgCongestion > 40 THEN "Some congestion"
  ELSE "Light traffic"

\* the status of the air-quality block
aqiStatus(recentAqi) ==
  IF recentAqi > 300 THEN "Hazardous"
  ELSE IF recentAqi > 200 THEN "Very unhealthy"
  ELSE IF recentAqi > 150 THEN "Unhealthy"
  ELSE IF recentAqi > 100 THEN "Unhealthy for sensitive groups"
  ELSE IF recentAqi > 50 THEN "Moderate"
  ELSE "Good"

\* the comparator of the sorts by timestamp: newest first
NewerSample(a, b) == getTime(a.timestamp) > getTime(b.timestamp)

\* xs.sort((a, b) => new Date(b.timestamp) - new Date(a.timestamp))
sortSamples(xs) ==
  SortStable(xs, [i \in 1..Len(xs) |-> [j \in 1..Len(xs) |-> NewerSample(xs[i], xs[j])]])

\* MemStorage.getStatsOverview: the air-quality, traffic and report blocks
\* (the flood block is constant; the count of today's reports is left out).
\* The lists it sorts are the fresh arrays getAirQualityData() and
\* getTrafficData() build, never the stored ones
getStatsOverview(s) ==
  LET airQualityAll == Flatten(s.airQualityData)
      trafficAll == Flatten(s.trafficData)
      reportsAll == s.reports
      recentAqi == IF Len(airQualityAll) > 0 THEN sortSamples(airQualityAll)[1].aqi ELSE 0
      avgCongestion ==
        IF Len(trafficAll) > 0
        THEN roundDiv(Sum([i \in 1..Len(trafficAll) |-> trafficAll[i].congestionLevel]),
                      Len(trafficAll))
        ELSE 0
      resolvedReports ==
        Len(SelectSeq(reportsAll, LAMBDA report : report.status = "resolved"))
  IN  [ airQuality |-> [value |-> recentAqi, status |-> aqiStatus(recentAqi)],
        trafficCongestion |->
          [value |-> Percent(avgCongestion), status |-> congestionStatus(avgCongestion)],
        citizenReports |->
          [resolved |-> resolvedReports, pending |-> Len(reportsAll) - resolvedReports] ]

GetStatsOverview ==
  /\ ret' = [op |-> "getStatsOverview", value |-> getStatsOverview(Store)]
  /\ UNCHANGED <<memVars, now, envVars>>

\* the value null of a property
Null == [null |-> TRUE]

\* getAqiStatus and getTrafficStatus of storage.ts
getAqiStatus(aqi) ==
  IF aqi <= 50 THEN "Good"
  ELSE IF aqi <= 100 THEN "Moderate"
  ELSE IF aqi <= 150 THEN "Unhealthy for Sensitive Groups"
  ELSE IF aqi <= 200 THEN "Unhealthy"
  ELSE IF aqi <= 300 THEN "Very Unhealthy"
  ELSE "Hazardous"

getTrafficStatus(congestion) ==
  IF congestion <= 30 THEN "Light"
  ELSE IF congestion <= 60 THEN "Moderate"
  ELSE IF congestion <= 80 THEN "Heavy"
  ELSE "Severe"

\* MemStorage.getMapData: the features, one per value of the locations Map;
\* filter() makes the per-location arrays that are sorted newest first
\* (geometry and colors are left out)
getMapData(s) ==
  LET locs == MapValues(s.locations)
      latest(xs, id) == sortSamples(SelectSeq(xs, LAMBDA d : d.locationId = id))
  IN  [i \in 1..Len(locs) |->
         LET locationAirQuality == latest(Flatten(s.airQualityData), locs[i].id)
             locationTraffic == latest(Flatten(s.trafficData), locs[i].id)
         IN  [ id |-> locs[i].id, name |-> locs[i].name,
               airQuality |->
                 IF locationAirQuality # <<>>
                 THEN [aqi |-> locationAirQuality[1].aqi,
                       status |-> getAqiStatus(locationAirQuality[1].aqi)]
                 ELSE Null,
               traffic |->
                 IF locationTraffic # <<>>
                 THEN [congestionLevel |-> locationTraffic[1].congestionLevel,
                       status |-> getTrafficStatus(locationTraffic[1].congestionLevel)]
                 ELSE Null ]]

GetMapData ==
  /\ ret' = [op |-> "getMapData", value |-> getMapData(Store)]
  /\ UNCHANGED <<memVars, now, envVars>>

\* the derived views of MemStorage over a store that grows by at most MaxNew
\* entities
NextStats ==
  \/ \E input \in {x \in TrafficInputs : x.congestionLevel = 95 /\ ~x.isHotspot},
        t \in ClockReads : NewEntities < MaxNew /\ AddTrafficData(input, t)
  \/ \E input \in {x \in AirQualityInputs : x.aqi = 180}, t \in ClockReads :
       NewEntities < MaxNew /\ AddAirQualityData(input, t)
  \/ \E input \in {x \in ReportInputs : x.issueType = "flooding"} :
       NewEntities < MaxNew /\ CreateReport(input, now)
  \/ \E input \in {x \in LocationInputs : x.name = "Harbor"} : AddLocation(input)
  \/ GetStatsOverview
  \/ GetMapData
  \/ GetTrafficHotspots
  \/ \E filter \in {"all", "Flood"} : GetReports(filter, 1, MaxPerPage)

SpecStats == Init /\ [][NextStats]_vars

\* the ways to pick, for every location with traffic samples, one sample with
\* the location's latest timestamp
LatestPicks ==
  { pick \in [1..Len(trafficData) -> Range(Flatten(trafficData))] :
      \A k \in 1..Len(trafficData) :
        /\ pick[k] \in Range(trafficData[k][2])
        /\ \A x \in Range(trafficData[k][2]) :
             getTime(x.timestamp) <= getTime(pick[k].timestamp) }

\* C11: the traffic value of getStatsOverview is the rounded mean of
\* congestionLevel over one sample per location, the location's most recent
\* one, and the status follows from it by the thresholds 40, 60 and 80.
C11_TrafficMeanOfLatest ==
  ret.op = "getStatsOverview" =>
    \E pick \in LatestPicks :
      LET n == Len(pick)
          total == Sum([k \in 1..n |-> pick[k].congestionLevel])
          mean == IF n = 0 THEN 0
                  ELSE CHOOSE m \in 0..100 : 2 * m * n <= 2 * total + n
                                             /\ 2 * total + n < 2 * (m + 1) * n
      IN  /\ ret.value.trafficCongestion.value = Percent(mean)
          /\ ret.value.trafficCongestion.status =
               (IF mean > 80 THEN "Severe congestion"
                ELSE IF mean > 60 THEN "Moderate congestion"
                ELSE IF mean > 40 THEN "Some congestion"
                ELSE "Light traffic")

----------------------------------------------------------------------------
(* Claim on a snapshot file that does not parse *)

\* some snapshot file is there and JSON.parse rejects it
SomeFileCorrupt == \E name \in DOMAIN disk : disk[name].exists /\ ~disk[name].parses

\* C12: when a snapshot file fails to parse during the load of a starting
\* process, the store is left with the contents its construction gave it, in
\* every collection and every counter.
C12_CorruptSnapshotLeavesDefaults ==
  (ret.op = "loadFromDisk" /\ SomeFileCorrupt) =>
    Observed(Store) = Observed(ConstructedStore(now))

----------------------------------------------------------------------------
(* Claim on failing durable writes *)

\* C13: a failing durable write (a file write of saveToDisk, a row append of
\* the spreadsheet store) is caught inside the store and never thrown to the
\* caller of the store operation.
C13_WriteErrorsNotPropagated ==
  ret.op \in {"saveToDisk", "gsAddLocation"} => ~ret.threw

----------------------------------------------------------------------------
(* Claim on a failing set-up of the spreadsheet store *)

\* C14: whatever fails while the spreadsheet store is set up at start-up, the
\* start-up goes on to register the routes over the in-memory store, whose
\* collections and counters are exactly as before.
C14_SetupFailureKeepsMemory ==
  [][(phase = "init" /\ ret'.op = "startup" /\ ~ret'.switched)
       => (phase' = "memory" /\ memVars' = memVars)]_vars

C14_Witness ==
  /\ ret.op = "startup"
  /\ "failedAt" \in DOMAIN ret
  /\ ret.failedAt = "sampleData"
  /\ Len(sheet.AirQualityData) = MaxNew
  /\ phase = "memory"

----------------------------------------------------------------------------
(* The prediction models and the air-quality analysis endpoint *)

\* the list getAirQualityData(locationId) / getTrafficData(locationId) hands
\* out: the stored array itself, or [] for a location without samples
samplesAt(m, locationId) == IF MapHas(m, locationId) THEN MapGet(m, locationId) ELSE <<>>

\* AirQualityModel.predict on a location with samples: sort() sorts the array
\* the store handed out, newest first, and the prediction for the first
\* element is stored with addPrediction
predictAirQuality(s, locationId, t) ==
  LET sortedData == sortSamples(samplesAt(s.airQualityData, locationId))
      s1 == [s EXCEPT !.airQualityData = MapSet(@, locationId, sortedData)]
  IN  stAddPrediction(s1, [locationId |-> locationId, type |-> "air",
                           currentValue |-> sortedData[1].aqi], t)

\* TrafficModel.predict on a location with samples
predictTraffic(s, locationId, t) ==
  LET sortedData == sortSamples(samplesAt(s.trafficData, locationId))
      s1 == [s EXCEPT !.trafficData = MapSet(@, locationId, sortedData)]
  IN  stAddPrediction(s1, [locationId |-> locationId, type |-> "traffic",
                           currentValue |-> sortedData[1].congestionLevel], t)

\* GET /air-quality/prediction: predict throws for a location without samples
\* before it touches anything, and the route answers 500
PredictAirQuality(locationId, t) ==
  /\ Len(Flatten(predictions)) < Len(predictionSamples) + MaxNew
  /\ t \in ClockReads
  /\ LET data == samplesAt(airQualityData, locationId)
     IN  IF data = <<>>
         THEN /\ ret' = [op |-> "predictAirQuality", locationId |-> locationId, status |-> 500]
              /\ UNCHANGED <<memVars, now>>
         ELSE /\ SetStore(predictAirQuality(Store, locationId, t))
              /\ now' = t
              /\ ret' = [op |-> "predictAirQuality", locationId |-> locationId,
                         status |-> 200, current |-> sortSamples(data)[1].aqi]
  /\ UNCHANGED envVars

\* GET /traffic/predict
PredictTraffic(locationId, t) ==
  /\ Len(Flatten(predictions)) < Len(predictionSamples) + MaxNew
  /\ t \in ClockReads
  /\ LET data == samplesAt(trafficData, locationId)
     IN  IF data = <<>>
         THEN /\ ret' = [op |-> "predictTraffic", locationId |-> locationId, status |-> 500]
              /\ UNCHANGED <<memVars, now>>
         ELSE /\ SetStore(predictTraffic(Store, locationId, t))
              /\ now' = t
              /\ ret' = [op |-> "predictTraffic", locationId |-> locationId,
                         status |-> 200, current |-> sortSamples(data)[1].congestionLevel]
  /\ UNCHANGED envVars

\* MemStorage.getAirQualityData(locationId)
GetAirQualityData(locationId) ==
  /\ ret' = [op |-> "getAirQualityData", locationId |-> locationId,
             value |-> samplesAt(airQualityData, locationId)]
  /\ UNCHANGED <<memVars, now, envVars>>

\* MemStorage.getTrafficData(locationId)
GetTrafficData(locationId) ==
  /\ ret' = [op |-> "getTrafficData", locationId |-> locationId,
             value |-> samplesAt(trafficData, locationId)]
  /\ UNCHANGED <<memVars, now, envVars>>

\* POST /air-quality/analyze with a locationId: 404 without samples; else the
\* input of the analysis is built from element 0 of the list the store hands
\* out, and airQualityModel.predict runs before the answer
AnalyzeAirQuality(locationId, t) ==
  /\ t \in ClockReads
  /\ LET airQualityDataAt == samplesAt(airQualityData, locationId)
         currentData == airQualityDataAt[1]
     IN  IF airQualityDataAt = <<>>
         THEN /\ ret' = [op |-> "analyzeAirQuality", locationId |-> locationId, status |-> 404]
              /\ UNCHANGED <<memVars, now>>
         ELSE /\ Len(Flatten(predictions)) < Len(predictionSamples) + MaxNew
              /\ SetStore(predictAirQuality(Store, locationId, t))
              /\ now' = t
              /\ ret' = [op |-> "analyzeAirQuality", locationId |-> locationId,
                         status |-> 200, input |-> [pm25 |-> currentData.pm25]]
  /\ UNCHANGED envVars

\* the locations asked for: one of the sample data, one that gets its samples
\* later, one that never has any
SampleLocations == {"downtown", "harbor", "airport"}

\* the clock moves between the adds; the order of the stored lists does not
\* depend on when a prediction is made
NextSamples ==
  \/ \E input \in {x \in AirQualityInputs : x.aqi = 180}, t \in ClockReads :
       AddAirQualityData(input, t)
  \/ \E input \in {x \in TrafficInputs :
                      x.locationId = "downtown" /\ x.congestionLevel = 95 /\ ~x.isHotspot},
        t \in ClockReads : AddTrafficData(input, t)
  \/ \E locationId \in SampleLocations : PredictAirQuality(locationId, now)
  \/ \E locationId \in SampleLocations : PredictTraffic(locationId, now)
  \/ \E locationId \in SampleLocations : GetAirQualityData(locationId)
  \/ \E locationId \in SampleLocations : GetTrafficData(locationId)
  \/ \E locationId \in SampleLocations : AnalyzeAirQuality(locationId, now)

SpecSamples == Init /\ [][NextSamples]_vars

\* x is the latest of the samples xs: none has a greater timestamp, and among
\* those of its timestamp none was added later
LatestOf(x, xs) ==
  /\ x \in Range(xs)
  /\ \A y \in Range(xs) :
       \/ getTime(y.timestamp) < getTime(x.timestamp)
       \/ (getTime(y.timestamp) = getTime(x.timestamp) /\ y.id <= x.id)

\* C15: the air-quality analysis for a location feeds the pollutant values of
\* the location's latest sample into the analysis, and answers 404 exactly
\* when the location has no samples.
C15_AnalysisUsesLatestSample ==
  ret.op = "analyzeAirQuality" =>
    LET xs == samplesAt(airQualityData, ret.locationId)
    IN  /\ ret.status = 404 <=> xs = <<>>
        /\ ret.status = 200 =>
             \E x \in Range(xs) : LatestOf(x, xs) /\ ret.input.pm25 = x.pm25

\* C16: the list getAirQualityData(locationId) and getTrafficData(locationId)
\* return is ordered by creation time ascending, whatever adds, predictions
\* and reads came before.
C16_SamplesAscending ==
  ret.op \in {"getAirQualityData", "getTrafficData"} =>
    \A i, j \in 1..Len(ret.value) :
      i < j => /\ getTime(ret.value[i].timestamp) <= getTime(ret.value[j].timestamp)
               /\ ret.value[i].id < ret.value[j].id

----------------------------------------------------------------------------
(* Claims on the derived views of MemStorage *)

DerivedViews == {"getReports", "getTrafficHotspots", "getStatsOverview", "getMapData"}

\* C17: getReports, getTrafficHotspots, getStatsOverview and getMapData of the
\* in-memory store leave every collection, in its stored order, and every id
\* counter as they were before the call.
C17_ViewsLeaveStore ==
  [][ret'.op \in DerivedViews => memVars' = memVars]_vars

\* each view has run on a store whose reports are not stored newest first and
\* whose downtown samples are several
C17_Witness ==
  /\ ret.op = "getReports"
  /\ ret.filter = "Flood"
  /\ Len(reports) > Len(reportSamples)
  /\ sortReports(reports) # reports
  /\ Len(samplesAt(trafficData, "downtown")) > 1

----------------------------------------------------------------------------
(* The derived views of GoogleSheetsStorage *)

\* getAirQualityData(): the data rows of the sheet, cells parsed
gsGetAirQualityData(sh) ==
  LET rows == sh.AirQualityData
  IN  [i \in 1..Len(rows) |->
         [ id |-> parseInt(rows[i].id), locationId |-> rows[i].locationId,
           aqi |-> parseInt(rows[i].aqi), timestamp |-> Date(rows[i].timestamp[2]) ]]

\* getTrafficData()
gsGetTrafficData(sh) ==
  LET rows == sh.TrafficData
  IN  [i \in 1..Len(rows) |->
         [ id |-> parseInt(rows[i].id), locationId |-> rows[i].locationId,
           congestionLevel |-> parseInt(rows[i].congestionLevel),
           isHotspot |-> rows[i].isHotspot = "true",
           timestamp |-> Date(rows[i].timestamp[2]) ]]

\* GoogleSheetsStorage.getTrafficHotspots: filter and map, no sort; a sample
\* whose location is not found is listed under its locationId
gsGetTrafficHotspots(sh) ==
  LET locs == gsGetLocations(sh, {})
      hotspotData ==
        SelectSeq(gsGetTrafficData(sh),
                  LAMBDA data : data.isHotspot \/ data.congestionLevel > 70)
      nameOf(id) ==
        IF \E k \in 1..Len(locs) : locs[k].id = id
        THEN locs[CHOOSE k \in 1..Len(locs) :
                    locs[k].id = id /\ \A j \in 1..(k - 1) : locs[j].id # id].name
        ELSE id
  IN  [i \in 1..Len(hotspotData) |->
         [ id |-> Text(hotspotData[i].id),
           location |-> nameOf(hotspotData[i].locationId),
           congestionLevel |-> hotspotData[i].congestionLevel,
           severity |-> IF hotspotData[i].congestionLevel > 80 THEN "H"
                        ELSE IF hotspotData[i].congestionLevel > 60 THEN "M" ELSE "L" ]]

\* GoogleSheetsStorage.getMapData: one feature per row of the Locations sheet;
\* per location the first of the samples with the greatest timestamp is kept
\* (a later one replaces the kept one only when strictly newer), and a
\* location without samples gets the value 0 (status and color of the
\* features are left out)
gsGetMapData(sh) ==
  LET locs == gsGetLocations(sh, {})
      kept(xs, id) ==
        LET mine == SelectSeq(xs, LAMBDA d : d.locationId = id)
        IN  IF mine = <<>> THEN <<>>
            ELSE <<mine[CHOOSE i \in 1..Len(mine) :
                     /\ \A j \in 1..Len(mine) :
                          getTime(mine[j].timestamp) <= getTime(mine[i].timestamp)
                     /\ \A j \in 1..(i - 1) :
                          getTime(mine[j].timestamp) < getTime(mine[i].timestamp)]>>
  IN  [i \in 1..Len(locs) |->
         LET airQuality == kept(gsGetAirQualityData(sh), locs[i].id)
             traffic == kept(gsGetTrafficData(sh), locs[i].id)
         IN  [ id |-> locs[i].id, name |-> locs[i].name,
               airQuality |-> [aqi |-> IF airQuality = <<>> THEN 0 ELSE airQuality[1].aqi],
               traffic |-> [congestionLevel |->
                              IF traffic = <<>> THEN 0 ELSE traffic[1].congestionLevel] ]]

GsGetTrafficHotspots ==
  /\ phase = "switched"
  /\ ret' = [op |-> "gsGetTrafficHotspots", value |-> gsGetTrafficHotspots(sheet)]
  /\ UNCHANGED <<memVars, now, envVars>>

GsGetMapData ==
  /\ phase = "switched"
  /\ ret' = [op |-> "gsGetMapData", value |-> gsGetMapData(sheet)]
  /\ UNCHANGED <<memVars, now, envVars>>

\* GoogleSheetsStorage.createReport on the initialised instance: the id is
\* taken and the counter advanced before the append, which may fail
GsCreateReport(input, ok, t) ==
  /\ phase = "switched"
  /\ Len(sheet.Reports) < Len(sampleReports) + MaxNew
  /\ gs.reportId < Len(sampleReports) + MaxNew + 1
  /\ LET g == gsCreateReport([sheet |-> sheet, ctr |-> gs], input, t)
     IN  /\ sheet' = IF ok THEN g.sheet ELSE sheet
         /\ gs' = g.ctr
  /\ ret' = [op |-> "gsCreateReport", ok |-> ok, threw |-> ~ok,
             value |-> [id |-> gs.reportId, issueType |-> input.issueType,
                        status |-> input.status]]
  /\ UNCHANGED <<memVars, now, disk, phase>>

\* the spreadsheet store after a start-up in which every sheet could be read or
\* the read of the Reports sheet failed
NextSheets ==
  \/ \E unreadable \in {{}, {"Reports"}} : StartupSwitch(unreadable, now)
  \/ \E input \in LocationInputs, ok \in BOOLEAN : GsAddLocation(input, ok)
  \/ \E ok \in BOOLEAN : GsCreateReport(sampleReports[1], ok, now)
  \/ GsGetTrafficHotspots
  \/ GsGetMapData

SpecSheets == InitStartup /\ [][NextSheets]_vars

----------------------------------------------------------------------------
(* Claims on getMapData, getTrafficHotspots and initializeCounters *)

\* x has the greatest timestamp among the samples xs
MostRecent(x, xs) ==
  x \in Range(xs) /\ \A y \in Range(xs) : getTime(y.timestamp) <= getTime(x.timestamp)

\* the features are those of the locations locs over the samples aq and tr
MapDataOf(features, locs, aq, tr) ==
  /\ Len(features) = Len(locs)
  /\ \A i \in 1..Len(locs) :
       LET myAq == SelectSeq(aq, LAMBDA d : d.locationId = locs[i].id)
           myTr == SelectSeq(tr, LAMBDA d : d.locationId = locs[i].id)
       IN  /\ features[i].id = locs[i].id
           /\ IF myAq = <<>> THEN features[i].airQuality = Null
              ELSE /\ features[i].airQuality # Null
                   /\ \E x \in Range(myAq) :
                        MostRecent(x, myAq) /\ features[i].airQuality.aqi = x.aqi
           /\ IF myTr = <<>> THEN features[i].traffic = Null
              ELSE /\ features[i].traffic # Null
                   /\ \E x \in Range(myTr) :
                        MostRecent(x, myTr)
                          /\ features[i].traffic.congestionLevel = x.congestionLevel

\* C18: getMapData emits one feature per stored location, carrying the values
\* of the location's most recent air-quality and traffic sample, null where
\* the location has none; samples at no stored location are in no feature.
C18_MapDataLatestOrNull ==
  /\ ret.op = "getMapData" =>
       MapDataOf(ret.value, MapValues(locations),
                 Flatten(airQualityData), Flatten(trafficData))
  /\ ret.op = "gsGetMapData" =>
       MapDataOf(ret.value, gsGetLocations(sheet, {}),
                 gsGetAirQualityData(sheet), gsGetTrafficData(sheet))

\* the hotspot list is the one of the samples tr over the locations with ids
\* locIds
HotspotsOf(hotspots, tr, locIds) ==
  LET wanted == {i \in 1..Len(tr) :
                   /\ tr[i].isHotspot \/ tr[i].congestionLevel > 70
                   /\ tr[i].locationId \in locIds}
  IN  /\ Len(hotspots) = Cardinality(wanted)
      /\ \A i \in wanted :
           \E k \in 1..Len(hotspots) :
             /\ hotspots[k].id = Text(tr[i].id)
             /\ hotspots[k].congestionLevel = tr[i].congestionLevel
      /\ \A k \in 1..Len(hotspots) :
           hotspots[k].severity =
             (IF hotspots[k].congestionLevel >= 90 THEN "H"
              ELSE IF hotspots[k].congestionLevel >= 70 THEN "M" ELSE "L")
      /\ \A j, k \in 1..Len(hotspots) :
           j < k => hotspots[j].congestionLevel >= hotspots[k].congestionLevel

\* C19: getTrafficHotspots returns one entry for exactly the samples that are
\* flagged or above 70 and whose location is stored, with severity H from 90,
\* M from 70 and L below, ordered by congestionLevel non-increasing.
C19_HotspotsSelectedGradedSorted ==
  /\ ret.op = "getTrafficHotspots" =>
       HotspotsOf(ret.value, Flatten(trafficData), Range(Ids(MapValues(locations))))
  /\ ret.op = "gsGetTrafficHotspots" =>
       HotspotsOf(ret.value, gsGetTrafficData(sheet),
                  Range(Ids(gsGetLocations(sheet, {}))))

\* C20: after initializeCounters each id counter is one more than the greatest
\* id in its sheet, so that an id assigned afterwards is the id of no row that
\* was stored before, also when a sheet could not be read at start-up.
C20_CountersAboveStoredIds ==
  /\ (ret.op = "startup" /\ ret.switched) =>
       /\ gs.userId = maxRowId(sheet.Users) + 1
       /\ gs.airQualityId = maxRowId(sheet.AirQualityData) + 1
       /\ gs.trafficId = maxRowId(sheet.TrafficData) + 1
       /\ gs.reportId = maxRowId(sheet.Reports) + 1
       /\ gs.predictionId = maxRowId(sheet.Predictions) + 1
  /\ (ret.op = "gsCreateReport" /\ ret.ok) =>
       Cardinality({i \in 1..Len(sheet.Reports) :
                      parseInt(sheet.Reports[i].id) = ret.value.id}) = 1

----------------------------------------------------------------------------
(* POST /reports *)

\* request bodies: two that insertReportSchema accepts (the second with
\* properties the schema does not pick) and two that lack a required property
ReportBodies ==
  ReportInputs \cup
  { [issueType |-> "flooding", location |-> "Downtown, Oak Street"],
    [location |-> "North, Block 4", description |-> "noise", status |-> "resolved"] }

\* insertReportSchema.parse: issueType, location and description are required,
\* photoUrl and userId optional; the result holds the picked properties only.
\* A body that fails gives the ZodError
insertReportSchema(body) ==
  IF {"issueType", "location", "description"} \subseteq DOMAIN body
  THEN [ok |-> TRUE,
        data |-> [k \in DOMAIN body \cap {"issueType", "location", "description",
                                          "photoUrl", "userId"} |-> body[k]]]
  ELSE [ok |-> FALSE]

\* a catch block that answers 400 to every error
statusOfAlways400(error) == IF error = "none" THEN 201 ELSE 400

\* the status of the response: 201 past createReport, 400 for the ZodError
\* of the parse, 500 for any other error
statusOf(error) ==
  IF error = "none" THEN 201 ELSE IF error = "ZodError" THEN 400 ELSE 500

\* POST /reports; storeFails stands for createReport throwing, which happens
\* before it assigned anything
PostReports(body, storeFails, t) ==
  /\ Len(reports) < Len(reportSamples) + MaxNew
  /\ t \in ClockReads
  /\ LET reportData == insertReportSchema(body)
         error == IF ~reportData.ok THEN "ZodError"
                  ELSE IF storeFails THEN "Error" ELSE "none"
     IN  IF error = "none"
         THEN /\ SetStore(stCreateReport(Store, reportData.data, t))
              /\ now' = t
              /\ ret' = [op |-> "postReports", body |-> body, storeFails |-> storeFails,
                         status |-> statusOf(error),
                         json |-> newReport(reportData.data, reportId, t)]
         ELSE /\ ret' = [op |-> "postReports", body |-> body, storeFails |-> storeFails,
                         status |-> statusOf(error)]
              /\ UNCHANGED <<memVars, now>>
  /\ UNCHANGED envVars

\* the two routes under /reports
NextPostReports ==
  \/ \E body \in ReportBodies, storeFails \in BOOLEAN, t \in ClockReads :
       PostReports(body, storeFails, t)
  \/ \E filter \in ReportFilters, page \in 1..MaxPage : GetReports(filter, page, 1)

SpecPostReports == Init /\ [][NextPostReports]_vars

\* the body has the properties the schema requires
ValidBody(body) ==
  /\ "issueType" \in DOMAIN body
  /\ "location" \in DOMAIN body
  /\ "description" \in DOMAIN body

\* C21: POST /reports answers 400 to a body that fails validation, without
\* reaching createReport (no report added, no id consumed), 201 with the
\* created report to a valid body, and 500 when createReport fails.
C21_PostReportsStatuses ==
  [][ ret'.op = "postReports" =>
        /\ ~ValidBody(ret'.body) =>
             /\ ret'.status = 400
             /\ reports' = reports
             /\ reportId' = reportId
        /\ (ValidBody(ret'.body) /\ ~ret'.storeFails) =>
             /\ ret'.status = 201
             /\ reportId' = reportId + 1
             /\ reports' = Append(reports, ret'.json)
             /\ ret'.json.id = reportId
        /\ (ValidBody(ret'.body) /\ ret'.storeFails) => ret'.status = 500 ]_vars

\* a failing createReport was answered 500 after a report had been created
C21_Witness ==
  /\ ret.op = "postReports"
  /\ ret.status = 500
  /\ Len(reports) = Len(reportSamples) + 1
  /\ reportId = Len(reportSamples) + 2

----------------------------------------------------------------------------
(* Users of MemStorage *)

\* find() taken from the end of the scan
getUserByUsernameLast(us, username) ==
  LET vs == MapValues(us)
      hits == {i \in 1..Len(vs) : vs[i].username = username}
  IN  IF hits = {} THEN Absent ELSE vs[Max(hits)]

\* MemStorage.getUserByUsername: Array.from(this.users.values()).find(...),
\* the first match in the insertion order of the Map, undefined without one
getUserByUsername(us, username) ==
  LET vs == MapValues(us)
      hits == {i \in 1..Len(vs) : vs[i].username = username}
  IN  IF hits = {} THEN Absent ELSE vs[CHOOSE i \in hits : \A j \in hits : i <= j]

\* MemStorage.getUser
GetUser(id) ==
  /\ ret' = [op |-> "getUser", id |-> id,
             value |-> IF MapHas(users, id) THEN MapGet(users, id) ELSE Absent]
  /\ UNCHANGED <<memVars, now, envVars>>

GetUserByUsername(username) ==
  /\ ret' = [op |-> "getUserByUsername", username |-> username,
             value |-> getUserByUsername(users, username)]
  /\ UNCHANGED <<memVars, now, envVars>>

\* user ids and usernames asked for: stored ones and one that is not
NextUsers ==
  \/ \E input \in UserInputs, t \in ClockReads : CreateUser(input, t)
  \/ \E id \in 1..userId : GetUser(id)
  \/ \E username \in {"asha", "ravi"} : GetUserByUsername(username)

SpecUsers == Init /\ [][NextUsers]_vars

\* the stored users with the username
UsersNamed(us, username) ==
  {u \in Range(MapValues(us)) : u.username = username}

----------------------------------------------------------------------------
(* The life of the entities in the running MemStorage *)

\* creates, adds and updates in every collection, reads that sort stored
\* lists, derived views, predictions and saves, in one process
NextLifecycle ==
  \/ \E input \in {x \in UserInputs : x.role = "user"} :
       NewEntities < MaxNew /\ CreateUser(input, now)
  \/ \E input \in {x \in AirQualityInputs : x.locationId = "downtown" /\ x.aqi = 180},
        t \in ClockReads : NewEntities < MaxNew /\ AddAirQualityData(input, t)
  \/ \E input \in {x \in ReportInputs : x.issueType = "flooding"} :
       NewEntities < MaxNew /\ CreateReport(input, now)
  \/ \E input \in {x \in PredictionInputs : x.locationId = "downtown" /\ x.type = "air"} :
       NewEntities < MaxNew /\ AddPrediction(input, now)
  \/ \E input \in {x \in LocationInputs : x.id = "downtown" /\ x.name = "Harbor"} :
       AddLocation(input)
  \/ UpdateReport(reportId - 1, "resolved", now)
  \/ NewEntities < MaxNew /\ PredictAirQuality("downtown", now)
  \/ GetPrediction("downtown", "air")
  \/ GetReports("all", 1, MaxPerPage)
  \/ NothingSaved /\ SaveToDisk(Len(FileOrder), FALSE)

SpecLifecycle == Init /\ [][NextLifecycle]_vars

\* every id under every key of the Map of lists m is under the key in m2
ListsKept(m, m2) ==
  \A k \in 1..Len(m) :
    /\ MapHas(m2, m[k][1])
    /\ Range(Ids(m[k][2])) \subseteq Range(Ids(MapGet(m2, m[k][1])))

\* C23: no step of the running in-memory store removes an entity: every
\* user, sample, report, prediction and location that a read could return
\* before the step is, by its id and under its key, there after it.
C23_NothingRemoved ==
  [][ /\ \A k \in 1..Len(users) : MapHas(users', users[k][1])
      /\ \A k \in 1..Len(locations) : MapHas(locations', locations[k][1])
      /\ Range(Ids(reports)) \subseteq Range(Ids(reports'))
      /\ ListsKept(airQualityData, airQualityData')
      /\ ListsKept(trafficData, trafficData')
      /\ ListsKept(predictions, predictions') ]_vars

\* a location holds several samples, a report was updated, a re-added
\* location replaced its entry and a snapshot was written
C23_Witness ==
  /\ Len(samplesAt(airQualityData, "downtown")) > 1
  /\ \E i \in 1..Len(reports) : reports[i].status = "resolved"
  /\ MapGet(locations, "downtown").name = "Harbor"
  /\ ~NothingSaved

----------------------------------------------------------------------------
(* Claim on the store that serves the routes after the switch *)

\* C24: after a start-up that switched to the spreadsheet store, every create
\* or add issued through the shared storage object is appended to the sheets
\* and leaves the in-memory collections as they were.
C24_SwitchedStoreServesRoutes ==
  [][ (phase = "switched" /\ ret'.op \in CreateOps) =>
        /\ sheet' # sheet
        /\ <<users', airQualityData', trafficData', reports', locations', predictions'>>
             = <<users, airQualityData, trafficData, reports, locations, predictions>> ]_vars

----------------------------------------------------------------------------
(* setupAutoSave: the interval timer and the SIGINT handler *)

\* the process has not exited
Running == phase # "exited"

\* the callback of setInterval with a save that writes every file
TickSaved ==
  /\ Running
  /\ SaveToDisk(Len(FileOrder), FALSE)

\* the callback of setInterval with a save whose k-th write throws: the catch
\* of saveToDisk logs, the callback returns, the timer stays armed
TickFailed(k) ==
  /\ Running
  /\ k \in 0..(Len(FileOrder) - 1)
  /\ SaveToDisk(k, TRUE)

\* the SIGINT handler: saveToDisk (synchronous writes, which may fail and are
\* caught), then process.exit(0)
Sigint(k, cut) ==
  /\ Running
  /\ disk' = filesAfterSave(disk, Store, k, cut)
  /\ phase' = "exited"
  /\ ret' = [op |-> "SIGINT", written |-> k, failed |-> cut]
  /\ UNCHANGED <<memVars, now, sheet, gs>>

\* the running process with auto-save set up: reports are created and
\* updated, the timer fires, SIGINT arrives
NextAutoSave ==
  \/ \E input \in {x \in ReportInputs : x.issueType = "flooding"} :
       Running /\ CreateReport(input, now)
  \/ \E status \in {"in-progress", "resolved"} :
       Running /\ UpdateReport(reportId - 1, status, now)
  \/ TickSaved
  \/ \E k \in {0, Len(FileOrder) \div 2} : TickFailed(k)
  \/ Sigint(Len(FileOrder), FALSE)
  \/ \E k \in {0, Len(FileOrder) \div 2} : Sigint(k, TRUE)

\* the timer keeps firing while the process runs, and write errors do not
\* last for ever: a save that writes every file comes about
SpecAutoSave == Init /\ [][NextAutoSave]_vars /\ WF_vars(TickSaved)

\* every file on disk is the image of the store
Saved == \A name \in DOMAIN disk : disk[name] = fileImage(Store, name)

----------------------------------------------------------------------------
(* saveToDisk: the snapshot as a cut of the store *)

\* what identifies a state of the store: the ids held by each collection, the
\* status of each report, and the five counters
StoreCut ==
  [ users |-> Ids(MapValues(users)), userId |-> userId,
    airQuality |-> Ids(Flatten(airQualityData)), airQualityId |-> airQualityId,
    traffic |-> Ids(Flatten(trafficData)), trafficId |-> trafficId,
    reports |-> [i \in 1..Len(reports) |-> <<reports[i].id, reports[i].status>>],
    reportId |-> reportId,
    locations |-> Ids(MapValues(locations)),
    predictions |-> Ids(Flatten(predictions)), predictionId |-> predictionId ]

\* the same, read from the parsed content of the six files
DiskCut(files) ==
  LET c(name) == files[name].content
  IN  [ users |-> Ids(MapValues(c("users").users)), userId |-> c("users").nextId,
        airQuality |-> Ids(Flatten(c("airQuality").data)),
        airQualityId |-> c("airQuality").nextId,
        traffic |-> Ids(Flatten(c("traffic").data)), trafficId |-> c("traffic").nextId,
        reports |-> [i \in 1..Len(c("reports").reports) |->
                       <<c("reports").reports[i].id, c("reports").reports[i].status>>],
        reportId |-> c("reports").nextId,
        locations |-> Ids(MapValues(c("locations").locations)),
        predictions |-> Ids(Flatten(c("predictions").predictions)),
        predictionId |-> c("predictions").nextId ]

\* C26: a saveToDisk that wrote every file leaves six files that all parse and
\* together hold one state of the store, the one the save started from and
\* ended with: collections and counters on disk are those of the store, and
\* the save changed nothing in the store.
C26_SnapshotIsConsistentCut ==
  [][(ret'.op = "saveToDisk" /\ ret'.written = Len(FileOrder))
       => /\ \A name \in DOMAIN disk' : disk'[name].exists /\ disk'[name].parses
          /\ DiskCut(disk') = StoreCut
          /\ memVars' = memVars]_vars

\* a snapshot was written after entities were created in several collections
\* and a report was updated
C26_Witness ==
  /\ ret.op = "saveToDisk"
  /\ ret.written = Len(FileOrder)
  /\ DiskCut(disk) = StoreCut
  /\ Len(reports) > Len(reportSamples)
  /\ Len(users) > 0
  /\ reports[Len(reports)].status = "resolved"

----------------------------------------------------------------------------
(* getReports: the pages of one filtered list *)

\* the reports of pages p..last of getReports, one page after the other
RECURSIVE PagesFrom(_, _, _, _)
PagesFrom(filter, perPage, p, last) ==
  IF p > last THEN <<>>
  ELSE getReports(reports, filter, p, perPage).reports
         \o PagesFrom(filter, perPage, p + 1, last)

\* the stored reports a filter lets through
Filtered(filter) ==
  {i \in 1..Len(reports) : filter = "all" \/ matchesFilter(reports[i], filter)}

\* the stored report a formatted report stands for
StoredAs(f) == CHOOSE i \in 1..Len(reports) : Text(reports[i].id) = f.id

\* C27: for the stored reports, the filter and the page size of a getReports
\* call, pages 1 to totalPages taken together hold every filtered report
\* exactly once, and no other, in descending createdAt order; the pages past
\* totalPages are empty; every page carries the same total, the number of
\* filtered reports; and the page the call returned is one of these pages.
C27_PagesPartitionFiltered ==
  (ret.op = "getReports") =>
    LET pageOf(p) == getReports(reports, ret.filter, p, ret.perPage)
        totalPages == pageOf(1).totalPages
        all == PagesFrom(ret.filter, ret.perPage, 1, totalPages)
    IN  /\ ret.value = pageOf(ret.page)
        /\ Len(all) = Cardinality(Filtered(ret.filter))
        /\ \A i \in Filtered(ret.filter) :
             Cardinality({k \in 1..Len(all) : all[k].id = Text(reports[i].id)}) = 1
        /\ \A k \in 1..(Len(all) - 1) :
             getTime(reports[StoredAs(all[k])].createdAt)
               >= getTime(reports[StoredAs(all[k + 1])].createdAt)
        /\ \A p \in (totalPages + 1)..(totalPages + MaxPage) : pageOf(p).reports = <<>>
        /\ \A p \in 1..(totalPages + MaxPage) :
             /\ pageOf(p).total = Cardinality(Filtered(ret.filter))
             /\ pageOf(p).totalPages = totalPages

\* a filter that lets some but not all reports through, a page size that
\* spreads them over several pages, and a call for the last of these pages
C27_Witness ==
  /\ ret.op = "getReports"
  /\ ret.filter # "all"
  /\ ret.value.total < Len(reports)
  /\ ret.value.totalPages > 1
  /\ ret.page = ret.value.totalPages
  /\ ret.value.reports # <<>>

----------------------------------------------------------------------------
(* calculateAQI over the whole range of concentrations *)

\* the band a label names
bandOf(label) == CHOOSE i \in 1..Len(labels) : labels[i] = label

\* C28: for every concentration from 0 to 500.4 in steps of 0.01,
\* calculateAQI returns a value inside the AQI range of the band whose label it
\* returns, and neither the value nor the band is lower than for the
\* concentration one step below.
C28_AqiInBandAndMonotone ==
  (ret.op = "calculateAQI" /\ ret.pm25 <= 50040) =>
    LET b == breakpoints[bandOf(ret.value.label)]
    IN  /\ b.aqiLow <= ret.value.value /\ ret.value.value <= b.aqiHigh
        /\ ret.pm25 > 0 =>
             LET below == calculateAQI(ret.pm25 - 1)
             IN  /\ below.value <= ret.value.value
                 /\ bandOf(below.label) <= bandOf(ret.value.label)

----------------------------------------------------------------------------
(* GoogleSheetsStorage.getStatsOverview: the reports block *)

\* rows of the Reports sheet
MaxSheetReports == 13

\* the default of getReports' perPage parameter
DefaultPerPage == 10

\* capitalizeFirstLetter on the status strings: a space goes before every
\* capital and the first character is put in upper case
capitalizeFirstLetter(status) ==
  CASE status = "open"       -> "Open"
    [] status = "inProgress" -> "In Progress"
    [] status = "resolved"   -> "Resolved"
    [] status = "pending"    -> "Pending"
    [] status = "Open"       -> " Open"
    [] OTHER                 -> status

\* GoogleSheetsStorage.getReports: the filter compares the status column, the
\* rows stay in sheet order, and the slice is the page
gsGetReports(sh, filter, page, perPage) ==
  LET data == getSheetData(sh, "Reports", {})
  IN  IF Len(data) <= 1 THEN [reports |-> <<>>, totalCount |-> 0]
      ELSE LET all == Tail(data)
               rows == IF filter # "all"
                       THEN SelectSeq(all, LAMBDA row : row.status = filter)
                       ELSE all
               startIdx == (page - 1) * perPage
               endIdx == startIdx + perPage
               paginatedRows == Slice(rows, startIdx, endIdx)
           IN  [ reports |->
                   [i \in 1..Len(paginatedRows) |->
                      [ id |-> paginatedRows[i].id,
                        issue |-> [type |-> paginatedRows[i].issueType],
                        status |-> [label |-> capitalizeFirstLetter(paginatedRows[i].status)] ]],
                 totalCount |-> Len(rows) ]

\* the reports block of getStatsOverview: getReports('all') with the default
\* page and page size, then the count of the status labels 'Open'
gsStatsReports(sh) ==
  LET got == gsGetReports(sh, "all", 1, DefaultPerPage).reports
      openReports == Len(SelectSeq(got, LAMBDA report : report.status.label = "Open"))
  IN  [ value |-> openReports,
        change |-> [value |-> "+3", type |-> "increase"],
        status |-> IF openReports > 10 THEN "Backlog" ELSE "Manageable" ]

\* getStatsOverview, as far as the Reports sheet decides its result
GsGetStatsOverview ==
  /\ phase = "switched"
  /\ ret' = [op |-> "gsGetStatsOverview", value |-> [reports |-> gsStatsReports(sheet)]]
  /\ UNCHANGED <<memVars, now, envVars>>

GsGetReports(filter, page, perPage) ==
  /\ phase = "switched"
  /\ ret' = [op |-> "gsGetReports", filter |-> filter, page |-> page,
             value |-> gsGetReports(sheet, filter, page, perPage)]
  /\ UNCHANGED <<memVars, now, envVars>>

\* the spreadsheet store after createReport calls with the given statuses
RECURSIVE gsWithReports(_, _)
gsWithReports(g, statuses) ==
  IF statuses = <<>> THEN g
  ELSE gsWithReports(
         gsCreateReport(g, [issueType |-> "AirPollution", status |-> Head(statuses)], 0),
         Tail(statuses))

\* the switched store over the spreadsheet of an earlier run, later filled by
\* createReport calls up to MaxSheetReports rows
InitSheetStats ==
  /\ \E n \in 0..(MaxSheetReports - Len(sampleReports)) :
       \E statuses \in [1..n -> {"open", "resolved"}] :
         LET g == gsWithReports(initializeSpreadsheet(SheetsOfEarlierRun, {}, 0), statuses)
         IN  /\ sheet = g.sheet
             /\ gs = g.ctr
             /\ InitStore(objectAssign(ConstructedStore(0), g.ctr))
  /\ now = 0
  /\ ret = [op |-> "none"]
  /\ disk = [n \in Range(FileOrder) |-> NoFile]
  /\ phase = "switched"

NextSheetStats ==
  \/ GsGetStatsOverview
  \/ \E filter \in {"all", "open"}, page \in 1..2 : GsGetReports(filter, page, DefaultPerPage)

SpecSheetStats == InitSheetStats /\ [][NextSheetStats]_vars

\* the rows of the Reports sheet whose status is 'open'
OpenRows == {i \in 1..Len(sheet.Reports) : sheet.Reports[i].status = "open"}

\* C29: in the spreadsheet-backed store the reports block of getStatsOverview
\* has as value the number of all stored reports whose status is 'open', and
\* as status 'Backlog' when that number exceeds 10 and 'Manageable' otherwise.
C29_OpenReportsCounted ==
  (ret.op = "gsGetStatsOverview") =>
    /\ ret.value.reports.value = Cardinality(OpenRows)
    /\ ret.value.reports.status =
         (IF Cardinality(OpenRows) > 10 THEN "Backlog" ELSE "Manageable")

----------------------------------------------------------------------------
(* The predict calls of the models and the store *)

\* the samples of a location none of which is older than x
NoneNewer(x, xs) == \A y \in Range(xs) : getTime(y.timestamp) <= getTime(x.timestamp)

\* C30: a predict call for a location without samples fails and leaves the
\* store as it was; a successful predict call appends exactly one prediction
\* under (locationId, 'air' or 'traffic'), whose currentValue is the value of a
\* most recent sample of the location, advances the prediction counter by one,
\* and changes no other collection and no other counter.
C30_PredictTouchesPredictionsOnly ==
  [][ (ret'.op \in {"predictAirQuality", "predictTraffic"}) =>
        LET air == ret'.op = "predictAirQuality"
            type == IF air THEN "air" ELSE "traffic"
            key == predictionKey(ret'.locationId, type)
            data == samplesAt(IF air THEN airQualityData ELSE trafficData, ret'.locationId)
            old == samplesAt(predictions, key)
        IN  IF data = <<>>
            THEN ret'.status = 500 /\ memVars' = memVars
            ELSE /\ ret'.status = 200
                 /\ Len(samplesAt(predictions', key)) = Len(old) + 1
                 /\ SubSeq(samplesAt(predictions', key), 1, Len(old)) = old
                 /\ LET p == samplesAt(predictions', key)[Len(old) + 1]
                    IN  /\ p.locationId = ret'.locationId
                        /\ p.type = type
                        /\ \E x \in Range(data) :
                             /\ NoneNewer(x, data)
                             /\ p.currentValue = (IF air THEN x.aqi ELSE x.congestionLevel)
                 /\ Len(Flatten(predictions')) = Len(Flatten(predictions)) + 1
                 /\ predictionId' = predictionId + 1
                 /\ UNCHANGED <<users, airQualityData, trafficData, reports, locations,
                                userId, airQualityId, trafficId, reportId>> ]_vars

====
